---- MODULE Spec2Model ----
(***************************************************************************)
(* Model of the event-log-to-positioned-snapshot engine of                 *)
(* src/output_animation_functions.py: reshape_for_animations (the pivot,   *)
(* the per-minute sweep, the synthetic exit rows, the final sort) followed *)
(* by the positioning part of animate_activity_log (rank, merge with the   *)
(* stage descriptors, resource slots, queue stacking with wrapping).       *)
(*                                                                         *)
(* Data frames are sequences of records; NaN / a missing value is the      *)
(* empty tuple Null and a present number v is <<v>>.                       *)
(***************************************************************************)
EXTENDS Integers, Sequences, FiniteSets, TLC

(***************************************************************************)
(* Bounds of the model.                                                    *)
(***************************************************************************)
MaxT == 2          \* event times of the generated logs are 0..MaxT
MaxStep == 2       \* every_x_time_units ranges over 1..MaxStep
MaxQueue == 7      \* largest number of entities waiting in one queue
MaxWrap == 3       \* wrap_queues_at ranges over None and 1..MaxWrap
MaxPatients == 3   \* a simulation run generates at most MaxPatients patients
SimUntil == 3      \* a simulation run ends at time SimUntil
n_beds == 1        \* the number of beds of the hospital
MaxSeed == 2       \* the random number set of a scenario ranges over 0..MaxSeed
MaxReps == 3       \* n_reps ranges over 0..MaxReps
run_length == 8    \* the run length of the follow-up booking model, in days
MaxReferrals == 2  \* at most MaxReferrals referrals arrive in a run of that model

(***************************************************************************)
(* Program constants: the defaults of animate_activity_log.                *)
(***************************************************************************)
gap_between_entities == 10
gap_between_rows == 30
gap_between_resources == 10

Null == <<>>
Some(v) == <<v>>

(***************************************************************************)
(* Event names and the order Python gives them as strings (sort_values on  *)
(* the "event" column compares the names lexicographically).               *)
(***************************************************************************)
EventNames ==
    {"arrival", "depart", "exit", "treatment_begins", "treatment_complete",
     "treatment_wait_begins", "triage_wait_begins"}

EventOrd(ev) ==
    CASE ev = "arrival" -> 1
      [] ev = "depart" -> 2
      [] ev = "exit" -> 3
      [] ev = "treatment_begins" -> 4
      [] ev = "treatment_complete" -> 5
      [] ev = "treatment_wait_begins" -> 6
      [] ev = "triage_wait_begins" -> 7

(***************************************************************************)
(* One event log entry, as the example models append them.                 *)
(***************************************************************************)
Entry(p, pw, et, ev, t, rid) ==
    [patient |-> p, pathway |-> pw, event_type |-> et, event |-> ev,
     time |-> t, resource_id |-> rid]

(***************************************************************************)
(* The stage descriptors of the simplest-case page.                        *)
(***************************************************************************)
ex_1_event_position_df ==
    << [event |-> "arrival", x |-> 50, y |-> 300],
       [event |-> "treatment_wait_begins", x |-> 205, y |-> 170],
       [event |-> "treatment_begins", x |-> 205, y |-> 110],
       [event |-> "exit", x |-> 270, y |-> 70] >>

(***************************************************************************)
(* Generic helpers: lexicographic order on integer tuples and the stable   *)
(* sort pandas uses for a sort_values on several columns.                  *)
(***************************************************************************)
LexLess(a, b) ==
    \E i \in 1..Len(a) : a[i] < b[i] /\ \A j \in 1..(i - 1) : a[j] = b[j]

\* f itself; the comparison makes TLC tabulate f once, not at every use
Tabulated(f) == IF f = <<>> THEN <<>> ELSE f

\* the indices 1..n in the order of a stable sort by keys: index i comes
\* behind the indices with a smaller key and the earlier ones with its key
SortedIndices(keys) ==
    LET n == Len(keys)
        place == Tabulated([i \in 1..n |->
                     1 + Cardinality({j \in 1..n :
                                         \/ LexLess(keys[j], keys[i])
                                         \/ j < i /\ ~LexLess(keys[i], keys[j])})])
    IN Tabulated([pos \in 1..n |-> CHOOSE i \in 1..n : place[i] = pos])

StableSort(rows, keys) ==
    LET order == SortedIndices(keys)
    IN Tabulated([pos \in 1..Len(rows) |-> rows[order[pos]]])

\* the rows whose index is in keep, in the order of the frame
SelectIdx(rows, keep) ==
    LET K == {i \in 1..Len(rows) : i \in keep}
        place == Tabulated([i \in K |-> Cardinality({j \in K : j <= i})])
    IN Tabulated([pos \in 1..Cardinality(K) |-> rows[CHOOSE i \in K : place[i] = pos]])

\* groupby(col).tail(1): the last row of every group, in the frame's order
TailOnePerPatient(rows) ==
    SelectIdx(rows, {i \in 1..Len(rows) :
                        \A j \in (i + 1)..Len(rows) : rows[j].patient # rows[i].patient})

RECURSIVE ConcatRange(_, _, _)
ConcatRange(frames, lo, hi) ==
    IF lo > hi THEN <<>>
    ELSE IF lo = hi THEN frames[lo]
    ELSE LET mid == (lo + hi) \div 2
         IN ConcatRange(frames, lo, mid) \o ConcatRange(frames, mid + 1, hi)

Concat(frames) == ConcatRange(frames, 1, Len(frames))



(***************************************************************************)
(* State.  The inputs of one call (event_log, every_x_time_units,          *)
(* limit_duration, wrap_queues_at), the locals of reshape_for_animations   *)
(* (minute, patient_dfs, full_patient_df, final_step), the locals of       *)
(* animate_activity_log (ranked_df, merged_df, resource_use, queues,       *)
(* full_patient_df_plus_pos) and the position pc of the call.  For a log   *)
(* that a simulation run writes: the clock and the event queue of the      *)
(* simpy environment (now, env_queue), the store of cubicles of ex_1       *)
(* (treatment), its count of patients (patient_count) and its number of    *)
(* cubicles (args_n_cubicles_1, the n_cubicles_1 of the scenario), the     *)
(* store of                                                                *)
(* beds of ex_3 (beds), its counts of patients (pt_count) and, for every   *)
(* patient of ex_3, its request of a bed and its admission condition       *)
(* (requests).  For multiple_replications of ex_1: the random number set   *)
(* of the scenario (random_number_set), n_reps, the loop variable rep and, *)
(* for every call made so far, the random number set the scenario had when *)
(* the call was made and the random_no_set of every single_run (calls).    *)
(* For the follow-up booking model of ex_5: the three diaries of the       *)
(* scenario (available_slots, carve_out_slots, bookings), the caseload     *)
(* file it was made from and its caseload (existing_caseload_file,         *)
(* existing_caseload, both counted in half caseload slots), the priority   *)
(* queue of the patients waiting for a booking                             *)
(* (waiting_for_clinician_store), the count total_arrivals of              *)
(* generate_arrivals and the PatientReferral objects made so far           *)
(* (referrals).                                                             *)
(***************************************************************************)
VARIABLES event_log, event_position_df,
          every_x_time_units, limit_duration, wrap_queues_at,
          minute, patient_dfs, regular_df, final_step, full_patient_df,
          ranked_df, merged_df, resource_use, queues,
          full_patient_df_plus_pos, pc,
          now, env_queue, treatment, patient_count, args_n_cubicles_1,
          beds, pt_count, requests,
          random_number_set, n_reps, rep, calls,
          available_slots, carve_out_slots, bookings,
          existing_caseload_file, existing_caseload,
          waiting_for_clinician_store, total_arrivals, referrals

vars == <<event_log, event_position_df,
          every_x_time_units, limit_duration, wrap_queues_at,
          minute, patient_dfs, regular_df, final_step, full_patient_df,
          ranked_df, merged_df, resource_use, queues,
          full_patient_df_plus_pos, pc,
          now, env_queue, treatment, patient_count, args_n_cubicles_1,
          beds, pt_count, requests,
          random_number_set, n_reps, rep, calls,
          available_slots, carve_out_slots, bookings,
          existing_caseload_file, existing_caseload,
          waiting_for_clinician_store, total_arrivals, referrals>>

hospital == <<beds, pt_count, requests>>
replications == <<random_number_set, n_reps, rep, calls>>
ex_5 == <<available_slots, carve_out_slots, bookings,
          existing_caseload_file, existing_caseload,
          waiting_for_clinician_store, total_arrivals, referrals>>
others == <<replications, ex_5>>
sim == <<now, env_queue, treatment, patient_count, args_n_cubicles_1, hospital, others>>
inputs == <<event_log, event_position_df, every_x_time_units, limit_duration>>
reshape_locals == <<minute, patient_dfs, regular_df, final_step, full_patient_df>>
animate_locals == <<wrap_queues_at, ranked_df, merged_df, resource_use, queues,
                    full_patient_df_plus_pos>>

(***************************************************************************)
(* pivot_table(values="time", index=["patient","event_type","pathway"],    *)
(* columns="event"): one row per (patient, event_type, pathway) that       *)
(* occurs in the log, one column per event name that occurs in the log,    *)
(* each cell the mean of the matching times or NaN.                        *)
(***************************************************************************)
PivotIndex(log) ==
    {<<log[i].patient, log[i].event_type, log[i].pathway>> : i \in 1..Len(log)}

HasColumn(log, ev) == \E i \in 1..Len(log) : log[i].event = ev

RECURSIVE SumTimes(_, _)
SumTimes(log, S) ==
    IF S = {} THEN 0
    ELSE LET i == CHOOSE j \in S : TRUE
         IN log[i].time + SumTimes(log, S \ {i})

PivotCell(log, k, ev) ==
    LET S == {i \in 1..Len(log) :
                 /\ log[i].patient = k[1]
                 /\ log[i].event_type = k[2]
                 /\ log[i].pathway = k[3]
                 /\ log[i].event = ev}
    IN IF S = {} THEN Null ELSE Some(SumTimes(log, S) \div Cardinality(S))

(***************************************************************************)
(* Lines 37-44: the patients of the pivot rows with arrival <= minute and  *)
(* (depart >= minute or depart is null); None when the pivot has no        *)
(* "arrival" or no "depart" column (KeyError).                             *)
(***************************************************************************)
\* a bug of the presence test: the patient is gone at its depart time
PivotRowBeforeDepart(log, k, m) ==
    LET arr == PivotCell(log, k, "arrival")
        dep == PivotCell(log, k, "depart")
    IN /\ arr # Null
       /\ arr[1] <= m
       /\ (dep = Null \/ dep[1] > m)

PivotRowInMoment(log, k, m) ==
    LET arr == PivotCell(log, k, "arrival")
        dep == PivotCell(log, k, "depart")
    IN /\ arr # Null
       /\ arr[1] <= m
       /\ (dep = Null \/ dep[1] >= m)

\* the KeyError of lines 38-42: the pivot has no "arrival" or no "depart" column
PivotKeyError(log) == ~HasColumn(log, "arrival") \/ ~HasColumn(log, "depart")

CurrentPatientsInMoment(log, m) ==
    {k[1] : k \in {kk \in PivotIndex(log) : PivotRowInMoment(log, kk, m)}}

(***************************************************************************)
(* Lines 47-59: the entries of the current patients with time <= minute,   *)
(* sorted by (time, index); the last one of every patient; stamped with    *)
(* the minute.                                                             *)
(***************************************************************************)
\* a bug of the filter: entries up to the next minute are let through
NotAfterNext(t, m) == t <= m + 1

NotAfter(t, m) == t <= m

\* a bug of the sort: among equal times the entry logged first comes last
LatestKeyFirstLogged(r) == <<r.time, 0 - r.index>>

LatestKey(r) == <<r.time, r.index>>

WithIndex(log) ==
    [i \in 1..Len(log) |->
        [patient |-> log[i].patient, pathway |-> log[i].pathway,
         event_type |-> log[i].event_type, event |-> log[i].event,
         time |-> log[i].time, resource_id |-> log[i].resource_id,
         index |-> i]]

\* a bug of the snapshot: the resource_id of the entry is lost
AssignMinuteOnly(r, m) ==
    [patient |-> r.patient, pathway |-> r.pathway,
     event_type |-> r.event_type, event |-> r.event,
     time |-> r.time, resource_id |-> Null, minute |-> m]

AssignMinute(r, m) ==
    [patient |-> r.patient, pathway |-> r.pathway,
     event_type |-> r.event_type, event |-> r.event,
     time |-> r.time, resource_id |-> r.resource_id, minute |-> m]

MostRecentEventsMinute(log, current, m) ==
    LET indexed == WithIndex(log)
        kept == SelectIdx(indexed,
                    {i \in 1..Len(log) :
                        log[i].patient \in current /\ NotAfter(log[i].time, m)})
        sorted == StableSort(kept, [i \in 1..Len(kept) |-> LatestKey(kept[i])])
        latest == TailOnePerPatient(sorted)
    IN [i \in 1..Len(latest) |-> AssignMinute(latest[i], m)]

(***************************************************************************)
(* Lines 66-74: the exit step of every patient.                            *)
(***************************************************************************)
\* bugs of the exit step: the minute is left as it is; 1 is added, not the step
ExitMinuteSame(m, step) == m

ExitMinutePlusOne(m, step) == m + 1

ExitMinute(m, step) == m + step

ExitEvent == "exit"

ExitRow(r, step) ==
    [patient |-> r.patient, pathway |-> r.pathway,
     event_type |-> r.event_type, event |-> ExitEvent,
     time |-> r.time, resource_id |-> r.resource_id,
     minute |-> ExitMinute(r.minute, step)]

FinalStep(df, step) ==
    LET sorted == StableSort(df, [i \in 1..Len(df) |-> <<df[i].patient, df[i].minute>>])
        last == TailOnePerPatient(sorted)
    IN [i \in 1..Len(last) |-> ExitRow(last[i], step)]

\* line 79: sort_values(["minute", "event"])
OutputKey(r) == <<r.minute, EventOrd(r.event)>>

SortOutput(df) == StableSort(df, [i \in 1..Len(df) |-> OutputKey(df[i])])

(***************************************************************************)
(* The event logs the calls are made with.  Every log satisfies the        *)
(* invariant of the data model: one arrival and at most one depart per     *)
(* patient, every other entry of the patient between the two.              *)
(*                                                                         *)
(* PatientEntries is the journey of SimplePathway.execute: arrival, the    *)
(* wait for treatment (at the arrival time), the treatment in a cubicle,   *)
(* the end of the treatment and the departure (both at the depart time).   *)
(* A journey may stop anywhere (the run ended), skip the wait or the       *)
(* treatment, and log its depart under another pathway or event_type.      *)
(***************************************************************************)
Times == 0..MaxT

DepartVariants == {"same", "pathway", "event_type"}

PatientEntries(p, a, wait, tt, rid, td, dv) ==
    <<Entry(p, "Simplest", "arrival_departure", "arrival", a, Null)>>
    \o (IF wait
        THEN <<Entry(p, "Simplest", "queue", "treatment_wait_begins", a, Null)>>
        ELSE <<>>)
    \o (IF tt # Null
        THEN <<Entry(p, "Simplest", "resource_use", "treatment_begins", tt[1], Some(rid))>>
        ELSE <<>>)
    \o (IF tt # Null /\ td # Null
        THEN <<Entry(p, "Simplest", "resource_use_end", "treatment_complete", td[1], Some(rid))>>
        ELSE <<>>)
    \o (IF td # Null
        THEN <<Entry(p, IF dv = "pathway" THEN "Other" ELSE "Simplest",
                     IF dv = "event_type" THEN "departure" ELSE "arrival_departure",
                     "depart", td[1], Null)>>
        ELSE <<>>)

OptTimes(from) == {Null} \cup {Some(t) : t \in from..MaxT}

FirstPatientLogs ==
    {PatientEntries(1, a, wait, tt, 1, td, dv) :
        <<a, wait, tt, td, dv>> \in
            {q \in Times \X BOOLEAN \X OptTimes(0) \X OptTimes(0) \X DepartVariants :
                /\ q[3] # Null => q[3][1] >= q[1]
                /\ q[4] # Null => q[4][1] >= q[1]
                /\ (q[3] # Null /\ q[4] # Null) => q[4][1] >= q[3][1]
                /\ q[4] = Null => q[5] = "same"}}

SecondPatientLogs ==
    { <<>>,
      PatientEntries(2, 0, TRUE, Null, 2, Null, "same"),
      PatientEntries(2, 0, TRUE, Some(1), 2, Null, "same"),
      PatientEntries(2, 0, TRUE, Some(1), 2, Some(MaxT), "same"),
      PatientEntries(2, 0, TRUE, Some(0), 1, Some(MaxT), "same"),
      PatientEntries(2, 0, FALSE, Some(0), 2, Some(MaxT), "same"),
      PatientEntries(2, 1, FALSE, Null, 2, Some(1), "same") }

\* the entries in the order of the simulation clock
MergeByTime(l1, l2) ==
    StableSort(l1 \o l2, [i \in 1..(Len(l1) + Len(l2)) |-> <<(l1 \o l2)[i].time>>])

GeneralLogs ==
    {MergeByTime(l1, l2) : l1 \in FirstPatientLogs, l2 \in SecondPatientLogs}

(***************************************************************************)
(* Logs with a queue: patient 1 is treated on arrival and departs, n more  *)
(* patients arrive and wait for treatment.  They arrive all at time 0      *)
(* ("together"), one per time unit in the order of the log ("staggered",   *)
(* the last ones together at MaxT) or in the opposite order ("reversed",   *)
(* a log that is not in the order of the clock), and their identifiers     *)
(* increase or decrease along the log.                                     *)
(***************************************************************************)
QueuePatterns == {"together", "staggered", "reversed"}

QueueArrival(i, pattern) ==
    CASE pattern = "together" -> 0
      [] pattern = "staggered" -> IF i - 1 > MaxT THEN MaxT ELSE i - 1
      [] pattern = "reversed" -> IF i - 1 > MaxT THEN 0 ELSE MaxT - (i - 1)

QueuePatient(i, n, descending) == IF descending THEN n + 2 - i ELSE i + 1

QueueLog(n, pattern, descending) ==
    PatientEntries(1, 0, TRUE, Some(0), 1, Some(1), "same")
    \o Concat([i \in 1..n |->
                 PatientEntries(QueuePatient(i, n, descending),
                                QueueArrival(i, pattern), TRUE, Null, 1, Null, "same")])

QueueLogs ==
    {QueueLog(n, pattern, descending) :
        n \in 1..MaxQueue, pattern \in QueuePatterns, descending \in BOOLEAN}

Logs == GeneralLogs \cup QueueLogs

(***************************************************************************)
(* The log of one patient that waits from 0, is treated in cubicle 1 from  *)
(* 5 and departs at 10; it is animated with every_x_time_units = 1 and     *)
(* limit_duration = 12.                                                    *)
(***************************************************************************)
DepartOnGridLog ==
    << Entry(1, "Simplest", "arrival_departure", "arrival", 0, Null),
       Entry(1, "Simplest", "queue", "treatment_wait_begins", 0, Null),
       Entry(1, "Simplest", "resource_use", "treatment_begins", 5, Some(1)),
       Entry(1, "Simplest", "arrival_departure", "depart", 10, Null) >>

(***************************************************************************)
(* A call of animate_activity_log(event_log, event_position_df, ...,       *)
(* return_df_only=True): the state at the entry of reshape_for_animations. *)
(***************************************************************************)
\* multiple_replications is not called
NoReplications ==
    /\ random_number_set = 42
    /\ n_reps = 0
    /\ rep = 0
    /\ calls = <<>>

\* the follow-up booking model is not run
NoFollowUp ==
    /\ available_slots = <<>>
    /\ carve_out_slots = <<>>
    /\ bookings = <<>>
    /\ existing_caseload_file = <<>>
    /\ existing_caseload = <<>>
    /\ waiting_for_clinician_store = {}
    /\ total_arrivals = 0
    /\ referrals = <<>>

\* the number of cubicles of a scenario of ex_1 (its default)
n_cubicles_1 == 2

\* the log is given: no simulation runs
NoSimulation ==
    /\ now = 0
    /\ env_queue = <<>>
    /\ treatment = [items |-> <<>>, get_queue |-> <<>>]
    /\ patient_count = 0
    /\ args_n_cubicles_1 = n_cubicles_1
    /\ NoReplications
    /\ NoFollowUp
    /\ beds = [items |-> <<>>, get_queue |-> <<>>]
    /\ pt_count = [Primary |-> 1, Revision |-> 1]
    /\ requests = <<>>

Init ==
    /\ \/ /\ event_log \in Logs
          /\ every_x_time_units \in 1..MaxStep
          /\ limit_duration \in 1..(MaxT + 2)
       \/ /\ event_log = DepartOnGridLog
          /\ every_x_time_units = 1
          /\ limit_duration = 12
    /\ event_position_df = ex_1_event_position_df
    /\ wrap_queues_at = Null
    /\ minute = 0
    /\ patient_dfs = <<>>
    /\ regular_df = <<>>
    /\ final_step = <<>>
    /\ full_patient_df = <<>>
    /\ ranked_df = <<>>
    /\ merged_df = <<>>
    /\ resource_use = <<>>
    /\ queues = <<>>
    /\ full_patient_df_plus_pos = <<>>
    /\ pc = "sweep"
    /\ NoSimulation

(***************************************************************************)
(* Lines 24-59: one iteration of the loop over range(limit_duration).      *)
(* Mod is Python's a % b for b # 0 (the result has the sign of b);         *)
(* minute % 0 raises ZeroDivisionError.                                    *)
(***************************************************************************)
Mod(a, b) == IF b > 0 THEN a % b ELSE 0 - ((0 - a) % (0 - b))

SweepSkip ==
    /\ pc = "sweep"
    /\ minute < limit_duration
    /\ every_x_time_units # 0
    /\ Mod(minute, every_x_time_units) # 0
    /\ minute' = minute + 1
    /\ UNCHANGED <<sim, inputs, patient_dfs, regular_df, final_step, full_patient_df,
                   animate_locals, pc>>

SweepKeyError ==
    /\ pc = "sweep"
    /\ minute < limit_duration
    /\ every_x_time_units # 0
    /\ Mod(minute, every_x_time_units) = 0
    /\ PivotKeyError(event_log)
    /\ minute' = minute + 1
    /\ UNCHANGED <<sim, inputs, patient_dfs, regular_df, final_step, full_patient_df,
                   animate_locals, pc>>

SweepSnapshot ==
    /\ pc = "sweep"
    /\ minute < limit_duration
    /\ every_x_time_units # 0
    /\ Mod(minute, every_x_time_units) = 0
    /\ ~PivotKeyError(event_log)
    /\ patient_dfs' =
          Append(patient_dfs,
                 MostRecentEventsMinute(event_log,
                                        CurrentPatientsInMoment(event_log, minute),
                                        minute))
    /\ minute' = minute + 1
    /\ UNCHANGED <<sim, inputs, regular_df, final_step, full_patient_df,
                   animate_locals, pc>>

\* line 35 with every_x_time_units = 0
SweepZeroDivision ==
    /\ pc = "sweep"
    /\ minute < limit_duration
    /\ every_x_time_units = 0
    /\ pc' = "zero_division"
    /\ UNCHANGED <<sim, inputs, reshape_locals, animate_locals>>

(***************************************************************************)
(* Lines 61-79: the end of reshape_for_animations.  pd.concat of an empty  *)
(* list raises ValueError; otherwise the frames are concatenated, the exit *)
(* rows appended and the result sorted.                                    *)
(***************************************************************************)
ReshapeRaises ==
    /\ pc = "sweep"
    /\ minute >= limit_duration
    /\ patient_dfs = <<>>
    /\ pc' = "error"
    /\ UNCHANGED <<sim, inputs, reshape_locals, animate_locals>>

\* a bug of the return: the frames are gathered in the caller's event log
ReshapeReturnsInEventLog ==
    /\ pc = "sweep"
    /\ minute >= limit_duration
    /\ patient_dfs # <<>>
    /\ regular_df' = Concat(patient_dfs)
    /\ final_step' = FinalStep(regular_df', every_x_time_units)
    /\ full_patient_df' = SortOutput(regular_df' \o final_step')
    /\ event_log' = full_patient_df'
    /\ pc' = "reshaped"
    /\ UNCHANGED <<sim, event_position_df, every_x_time_units, limit_duration,
                   minute, patient_dfs, animate_locals>>

ReshapeReturns ==
    /\ pc = "sweep"
    /\ minute >= limit_duration
    /\ patient_dfs # <<>>
    /\ regular_df' = Concat(patient_dfs)
    /\ final_step' = FinalStep(regular_df', every_x_time_units)
    /\ full_patient_df' = SortOutput(regular_df' \o final_step')
    /\ pc' = "reshaped"
    /\ UNCHANGED <<sim, inputs, minute, patient_dfs, animate_locals>>

(***************************************************************************)
(* animate_activity_log, lines 143-148: the rank of every row within its   *)
(* (event, minute) group (rank(method='first') of the minute column: the   *)
(* position of the row within the group), the left merge with the stage    *)
(* descriptors and the sort by (event, minute, time).                      *)
(***************************************************************************)
\* a bug of the rank: the rows of a group are ranked by patient identifier
RankByPatient(df, i) ==
    1 + Cardinality({j \in 1..Len(df) :
                        /\ df[j].event = df[i].event
                        /\ df[j].minute = df[i].minute
                        /\ df[j].patient < df[i].patient})

RankFromBack(df, i) ==
    1 + Cardinality({j \in (i + 1)..Len(df) :
                        df[j].event = df[i].event /\ df[j].minute = df[i].minute})

RankFirst(df, i) ==
    1 + Cardinality({j \in 1..(i - 1) :
                        df[j].event = df[i].event /\ df[j].minute = df[i].minute})

WithRank(df) ==
    [i \in 1..Len(df) |->
        [patient |-> df[i].patient, pathway |-> df[i].pathway,
         event_type |-> df[i].event_type, event |-> df[i].event,
         time |-> df[i].time, resource_id |-> df[i].resource_id,
         minute |-> df[i].minute, rank |-> RankFirst(df, i)]]

WithPosition(r, x, y) ==
    [patient |-> r.patient, pathway |-> r.pathway,
     event_type |-> r.event_type, event |-> r.event,
     time |-> r.time, resource_id |-> r.resource_id,
     minute |-> r.minute, rank |-> r.rank, x |-> x, y |-> y]

\* a bug of the merge: an inner merge, the rows without descriptor are lost
MergeRowInner(r, positions) ==
    LET matches == SelectIdx(positions,
                             {k \in 1..Len(positions) : positions[k].event = r.event})
    IN [k \in 1..Len(matches) |->
           WithPosition(r, Some(matches[k].x), Some(matches[k].y))]

\* the rows a left merge on "event" makes of one row
MergeRow(r, positions) ==
    LET matches == SelectIdx(positions,
                             {k \in 1..Len(positions) : positions[k].event = r.event})
    IN IF matches = <<>>
       THEN <<WithPosition(r, Null, Null)>>
       ELSE [k \in 1..Len(matches) |->
                WithPosition(r, Some(matches[k].x), Some(matches[k].y))]

\* a bug of the merge: the merged table is sorted by minute first
MergedKeyByMinute(r) == <<r.minute, EventOrd(r.event), r.time>>

\* line 148: sort_values(["event", "minute", "time"])
MergedKey(r) == <<EventOrd(r.event), r.minute, r.time>>

MergePositions(df, positions) ==
    LET merged == Concat([i \in 1..Len(df) |-> MergeRow(df[i], positions)])
    IN StableSort(merged, [i \in 1..Len(merged) |-> MergedKey(merged[i])])

RankAndMerge ==
    /\ pc = "reshaped"
    /\ ranked_df' = WithRank(full_patient_df)
    /\ merged_df' = MergePositions(ranked_df', event_position_df)
    /\ pc' = "merged"
    /\ UNCHANGED <<sim, inputs, reshape_locals, wrap_queues_at, resource_use, queues,
                   full_patient_df_plus_pos>>

(***************************************************************************)
(* Lines 150-169: the positions of the resource_use rows and of the queue  *)
(* rows.  Arithmetic with NaN (a missing x, y or resource_id) gives NaN.   *)
(***************************************************************************)
NSub(a, b) == IF a = Null \/ b = Null THEN Null ELSE Some(a[1] - b[1])
NAdd(a, b) == IF a = Null \/ b = Null THEN Null ELSE Some(a[1] + b[1])
NTimes(a, k) == IF a = Null THEN Null ELSE Some(a[1] * k)

WithFinal(r, xf, yf) ==
    [patient |-> r.patient, pathway |-> r.pathway,
     event_type |-> r.event_type, event |-> r.event,
     time |-> r.time, resource_id |-> r.resource_id,
     minute |-> r.minute, rank |-> r.rank, x |-> r.x, y |-> r.y,
     x_final |-> xf, y_final |-> yf, row |-> Null]

WithRow(r, xf, yf, row) ==
    [patient |-> r.patient, pathway |-> r.pathway,
     event_type |-> r.event_type, event |-> r.event,
     time |-> r.time, resource_id |-> r.resource_id,
     minute |-> r.minute, rank |-> r.rank, x |-> r.x, y |-> r.y,
     x_final |-> xf, y_final |-> yf, row |-> Some(row)]

\* a bug of the resource slots: the slot is taken from the rank
ResourceXFinalByRank(r) == NSub(r.x, Some(r.rank * gap_between_resources))

\* lines 152-153
ResourceXFinal(r) == NSub(r.x, NTimes(r.resource_id, gap_between_resources))

ResourceYFinal(r) == r.y

\* a bug of the selection: every row that is no queue row is kept
IsNotQueueRow(r) == r.event_type # "queue"

\* line 151
IsResourceUseRow(r) == r.event_type = "resource_use"

ResourceUse(df) ==
    LET rows == SelectIdx(df, {i \in 1..Len(df) : IsResourceUseRow(df[i])})
    IN [i \in 1..Len(rows) |->
           WithFinal(rows[i], ResourceXFinal(rows[i]), ResourceYFinal(rows[i]))]

\* a bug of the queue: the first entity stands on the anchor
QueueXFinalFromAnchor(r) == NSub(r.x, Some((r.rank - 1) * gap_between_entities))

\* lines 158-159
QueueXFinal(r) == NSub(r.x, Some(r.rank * gap_between_entities))

QueueYFinal(r) == r.y

\* a bug of the wrap: the row changes at every multiple of wrap_queues_at
WrapRowAtMultiple(rank, wrap) == rank \div wrap

\* lines 165-167
WrapRow(rank, wrap) == rank \div (wrap + 1)

WrapXFinal(xf, row, wrap) == NAdd(xf, Some(wrap * row * gap_between_entities))

\* a bug of the wrap: the rows are not stacked
WrapYFinalFlat(yf, row) == yf

WrapYFinal(yf, row) == NAdd(yf, Some(row * gap_between_rows))

\* a bug of the selection: the arrival and departure rows are queue rows
IsQueueRowOrPoint(r) == r.event_type \in {"queue", "arrival_departure"}

\* line 156
IsQueueRow(r) == r.event_type = "queue"

Queues(df, wrap) ==
    LET rows == SelectIdx(df, {i \in 1..Len(df) : IsQueueRow(df[i])})
    IN [i \in 1..Len(rows) |->
           IF wrap = Null
           THEN WithFinal(rows[i], QueueXFinal(rows[i]), QueueYFinal(rows[i]))
           ELSE LET row == WrapRow(rows[i].rank, wrap[1])
                IN WithRow(rows[i],
                           WrapXFinal(QueueXFinal(rows[i]), row, wrap[1]),
                           WrapYFinal(QueueYFinal(rows[i]), row),
                           row)]

WrapChoices == {Null} \cup {Some(w) : w \in 1..MaxWrap}

PositionRows ==
    /\ pc = "merged"
    /\ \E wrap \in WrapChoices :
          /\ wrap_queues_at' = wrap
          /\ resource_use' = ResourceUse(merged_df)
          /\ queues' = Queues(merged_df, wrap)
          /\ full_patient_df_plus_pos' = queues' \o resource_use'
    /\ pc' = "positioned"
    /\ UNCHANGED <<sim, inputs, reshape_locals, ranked_df, merged_df>>

(***************************************************************************)
(* Lines 173-206: one icon of icon_list per patient, the patients taken in *)
(* the order of individual_patients (sorted identifiers), the list         *)
(* repeated when the patients outnumber it; the inner merge on "patient";  *)
(* the return of the positioned table (return_df_only=True).  An icon is   *)
(* named by its position in icon_list.                                     *)
(***************************************************************************)
IconListLen == 75

\* a bug of the icons: the identifiers are not sorted (drop_duplicates only)
IndividualPatientsUnsorted(df) ==
    LET firsts == SelectIdx(df, {i \in 1..Len(df) :
                                    \A j \in 1..(i - 1) : df[j].patient # df[i].patient})
    IN [i \in 1..Len(firsts) |-> firsts[i].patient]

\* line 173: drop_duplicates().sort_values()
IndividualPatients(df) ==
    LET firsts == SelectIdx(df, {i \in 1..Len(df) :
                                    \A j \in 1..(i - 1) : df[j].patient # df[i].patient})
        sorted == StableSort(firsts, [i \in 1..Len(firsts) |-> <<firsts[i].patient>>])
    IN [i \in 1..Len(sorted) |-> sorted[i].patient]

\* a bug of the icons: the list is not repeated, its last icon is reused
FullIconListNoCycle(n) == [k \in 1..n |-> IF k > IconListLen THEN IconListLen ELSE k]

FullIconList(n) == [k \in 1..n |-> ((k - 1) % IconListLen) + 1]

WithIcon(r, icon) ==
    [patient |-> r.patient, pathway |-> r.pathway,
     event_type |-> r.event_type, event |-> r.event,
     time |-> r.time, resource_id |-> r.resource_id,
     minute |-> r.minute, rank |-> r.rank, x |-> r.x, y |-> r.y,
     x_final |-> r.x_final, y_final |-> r.y_final, row |-> r.row,
     icon |-> icon]

MergeIcons(df, patients, icons) ==
    Concat([i \in 1..Len(df) |->
               LET matches == SelectIdx(icons, {k \in 1..Len(patients) :
                                                   patients[k] = df[i].patient})
               IN [k \in 1..Len(matches) |-> WithIcon(df[i], matches[k])]])

AssignIcons ==
    /\ pc = "positioned"
    /\ LET individual_patients == IndividualPatients(full_patient_df)
       IN full_patient_df_plus_pos' =
             MergeIcons(full_patient_df_plus_pos, individual_patients,
                        FullIconList(Len(individual_patients)))
    /\ pc' = "done"
    /\ UNCHANGED <<sim, inputs, reshape_locals, wrap_queues_at, ranked_df, merged_df,
                   resource_use, queues>>

Next ==
    \/ SweepSkip
    \/ SweepKeyError
    \/ SweepSnapshot
    \/ ReshapeRaises
    \/ ReshapeReturns
    \/ RankAndMerge
    \/ PositionRows
    \/ AssignIcons

Spec == Init /\ [][Next]_vars

(***************************************************************************)
(* Calls with any input the signature admits: a step or a duration that is *)
(* zero or negative, and logs that miss a resource_id or an arrival, hold  *)
(* a negative time, name a stage without descriptor or hold more patients  *)
(* than icon_list has icons.                                               *)
(***************************************************************************)
AnyStep == (0 - MaxStep)..MaxStep

AnyDuration == (0 - 1)..(MaxT + 2)

WithoutResourceId(log) ==
    [i \in 1..Len(log) |->
        Entry(log[i].patient, log[i].pathway, log[i].event_type, log[i].event,
              log[i].time, Null)]

WithoutEvent(log, ev) == SelectIdx(log, {i \in 1..Len(log) : log[i].event # ev})

Renamed(log, from, to) ==
    [i \in 1..Len(log) |->
        Entry(log[i].patient, log[i].pathway, log[i].event_type,
              IF log[i].event = from THEN to ELSE log[i].event,
              log[i].time, log[i].resource_id)]

PatientOne == PatientEntries(1, 0, TRUE, Some(1), 1, Some(MaxT), "same")

\* patient 2 is treated in a resource whose identity was not logged
MissingResourceIdLog ==
    MergeByTime(PatientOne,
                WithoutResourceId(PatientEntries(2, 0, TRUE, Some(1), 2, Null, "same")))

\* patient 2 has no arrival entry
MissingArrivalLog ==
    MergeByTime(PatientOne,
                WithoutEvent(PatientEntries(2, 0, TRUE, Null, 2, Some(MaxT), "same"),
                             "arrival"))

\* patient 2 arrives at a negative time
NegativeArrivalLog ==
    MergeByTime(PatientOne, PatientEntries(2, 0 - 1, TRUE, Some(0), 2, Some(1), "same"))

\* patient 2 waits at a stage event_position_df has no row for
NoDescriptorLog ==
    MergeByTime(PatientOne,
                Renamed(PatientEntries(2, 0, TRUE, Some(MaxT), 2, Null, "same"),
                        "treatment_wait_begins", "triage_wait_begins"))

\* nobody has departed when the run ends
NoDepartLog == PatientEntries(1, 0, TRUE, Some(1), 1, Null, "same")

\* two more patients than icon_list has icons
CrowdLog == QueueLog(IconListLen + 1, "together", TRUE)

AnyLogs ==
    {PatientOne, MissingResourceIdLog, MissingArrivalLog, NegativeArrivalLog,
     NoDescriptorLog, NoDepartLog}

InitAny ==
    /\ \/ /\ event_log \in AnyLogs
          /\ every_x_time_units \in AnyStep
          /\ limit_duration \in AnyDuration
       \/ /\ event_log = CrowdLog
          /\ every_x_time_units = 1
          /\ limit_duration = 1
    /\ event_position_df = ex_1_event_position_df
    /\ wrap_queues_at = Null
    /\ minute = 0
    /\ patient_dfs = <<>>
    /\ regular_df = <<>>
    /\ final_step = <<>>
    /\ full_patient_df = <<>>
    /\ ranked_df = <<>>
    /\ merged_df = <<>>
    /\ resource_use = <<>>
    /\ queues = <<>>
    /\ full_patient_df_plus_pos = <<>>
    /\ pc = "sweep"
    /\ NoSimulation

NextAny ==
    \/ SweepSkip
    \/ SweepKeyError
    \/ SweepSnapshot
    \/ SweepZeroDivision
    \/ ReshapeRaises
    \/ ReshapeReturns
    \/ RankAndMerge
    \/ PositionRows
    \/ AssignIcons

SpecAny == InitAny /\ [][NextAny]_vars

(***************************************************************************)
(* The simulation kernel of the examples (simpy).  An event of the queue   *)
(* has a time, a priority (0 urgent, 1 normal), a kind, the process it     *)
(* resumes and a value; env_queue holds the scheduled events in the order  *)
(* they were scheduled, and a step of the environment processes the event  *)
(* with the least (time, priority), the earliest scheduled among equals.   *)
(* A Store holds its items and the processes that wait for one; a get is   *)
(* served when the queue of gets is looked at, on a get and when a put is  *)
(* processed: the first waiting process takes the first item.              *)
(***************************************************************************)
Event(time, priority, kind, proc, value) ==
    [time |-> time, priority |-> priority, kind |-> kind, proc |-> proc, value |-> value]

NextIndex(q) ==
    CHOOSE i \in 1..Len(q) :
        \A j \in 1..Len(q) :
            i = j \/ LexLess(<<q[i].time, q[i].priority, i>>, <<q[j].time, q[j].priority, j>>)

NextEvent(q) == q[NextIndex(q)]

Pop(q) == SelectIdx(q, (1..Len(q)) \ {NextIndex(q)})

StoreGet(store, proc) == [store EXCEPT !.get_queue = Append(@, proc)]

\* a bug of the store: the item that is put back is dropped
StorePutNothing(store, item) == store

StorePut(store, item) == [store EXCEPT !.items = Append(@, item)]

GetServed(store) == store.get_queue # <<>> /\ store.items # <<>>

\* a bug of the store: the item that is handed out stays in the store
TriggerGetKeepsItem(store) ==
    IF GetServed(store)
    THEN [items |-> store.items, get_queue |-> Tail(store.get_queue)]
    ELSE store

TriggerGet(store) ==
    IF GetServed(store)
    THEN [items |-> Tail(store.items), get_queue |-> Tail(store.get_queue)]
    ELSE store

\* the get event that succeeds when the queue of gets is looked at, at time t
GetEvents(store, t) ==
    IF GetServed(store)
    THEN <<Event(t, 1, "StoreGet", Head(store.get_queue), Head(store.items))>>
    ELSE <<>>

(***************************************************************************)
(* ex_1: TreatmentCentreModelSimpleNurseStepOnly.  init_resources puts the *)
(* cubicles 1..n in the store, run starts the arrivals generator and       *)
(* schedules the end of the run.  Times are whole units; a sampled         *)
(* inter-arrival time is 0 or more, a sampled treatment time is positive.  *)
(***************************************************************************)
InterarrivalTimes == 0..1

TreatDurations == 1..2

InitSim ==
    /\ event_log = <<>>
    /\ every_x_time_units \in 1..MaxStep
    /\ limit_duration \in 1..(SimUntil + 1)
    /\ event_position_df = ex_1_event_position_df
    /\ wrap_queues_at = Null
    /\ minute = 0
    /\ patient_dfs = <<>>
    /\ regular_df = <<>>
    /\ final_step = <<>>
    /\ full_patient_df = <<>>
    /\ ranked_df = <<>>
    /\ merged_df = <<>>
    /\ resource_use = <<>>
    /\ queues = <<>>
    /\ full_patient_df_plus_pos = <<>>
    /\ pc = "simulate"
    /\ now = 0
    /\ patient_count = 0
    /\ beds = [items |-> <<>>, get_queue |-> <<>>]
    /\ pt_count = [Primary |-> 1, Revision |-> 1]
    /\ requests = <<>>
    /\ args_n_cubicles_1 \in 1..n_cubicles_1
    /\ NoReplications
    /\ NoFollowUp
    /\ treatment = [items |-> [i \in 1..args_n_cubicles_1 |-> i], get_queue |-> <<>>]
    /\ env_queue = [i \in 1..args_n_cubicles_1 |-> Event(0, 1, "StorePut", 0, 0)]
                   \o <<Event(0, 0, "arrivals_generator", 0, 0),
                        Event(SimUntil, 0, "until", 0, 0)>>

engine == <<event_position_df, every_x_time_units, limit_duration,
            reshape_locals, animate_locals>>

\* the generator starts: it samples the time to the first arrival
GeneratorStarts ==
    /\ pc = "simulate"
    /\ LET ev == NextEvent(env_queue)
       IN /\ ev.kind = "arrivals_generator"
          /\ now' = ev.time
          /\ \E interarrival_time \in InterarrivalTimes :
                env_queue' = Append(Pop(env_queue),
                                    Event(ev.time + interarrival_time, 1,
                                          "interarrival", 0, 0))
    /\ UNCHANGED <<event_log, treatment, patient_count, pc, engine, hospital, args_n_cubicles_1,
                   others>>

\* a patient arrives: its process is started and the next arrival sampled
PatientArrives ==
    /\ pc = "simulate"
    /\ LET ev == NextEvent(env_queue)
       IN /\ ev.kind = "interarrival"
          /\ now' = ev.time
          /\ patient_count' = patient_count + 1
          /\ \E interarrival_time \in InterarrivalTimes :
                env_queue' =
                    Pop(env_queue)
                    \o <<Event(ev.time, 0, "Initialize", patient_count, 0)>>
                    \o (IF patient_count + 1 < MaxPatients
                        THEN <<Event(ev.time + interarrival_time, 1, "interarrival", 0, 0)>>
                        ELSE <<>>)
    /\ UNCHANGED <<event_log, treatment, pc, engine, hospital, args_n_cubicles_1,
                   others>>

\* execute up to the get: the arrival, the wait, the request of a cubicle
ExecuteArrival ==
    /\ pc = "simulate"
    /\ LET ev == NextEvent(env_queue)
           asked == StoreGet(treatment, ev.proc)
       IN /\ ev.kind = "Initialize"
          /\ now' = ev.time
          /\ event_log' = event_log
                \o <<Entry(ev.proc, "Simplest", "arrival_departure", "arrival",
                           ev.time, Null),
                     Entry(ev.proc, "Simplest", "queue", "treatment_wait_begins",
                           ev.time, Null)>>
          /\ treatment' = TriggerGet(asked)
          /\ env_queue' = Pop(env_queue) \o GetEvents(asked, ev.time)
    /\ UNCHANGED <<patient_count, pc, engine, hospital, args_n_cubicles_1,
                   others>>

\* execute from the get to the timeout: the cubicle is seized
ExecuteTreatmentBegins ==
    /\ pc = "simulate"
    /\ LET ev == NextEvent(env_queue)
       IN /\ ev.kind = "StoreGet"
          /\ now' = ev.time
          /\ event_log' = Append(event_log,
                                 Entry(ev.proc, "Simplest", "resource_use",
                                       "treatment_begins", ev.time, Some(ev.value)))
          /\ \E treat_duration \in TreatDurations :
                env_queue' = Append(Pop(env_queue),
                                    Event(ev.time + treat_duration, 1, "Timeout",
                                          ev.proc, ev.value))
    /\ UNCHANGED <<treatment, patient_count, pc, engine, hospital, args_n_cubicles_1,
                   others>>

\* execute from the timeout to the end: the cubicle is put back
ExecuteTreatmentComplete ==
    /\ pc = "simulate"
    /\ LET ev == NextEvent(env_queue)
       IN /\ ev.kind = "Timeout"
          /\ now' = ev.time
          /\ event_log' = event_log
                \o <<Entry(ev.proc, "Simplest", "resource_use_end",
                           "treatment_complete", ev.time, Some(ev.value)),
                     Entry(ev.proc, "Simplest", "arrival_departure", "depart",
                           ev.time, Null)>>
          /\ treatment' = StorePut(treatment, ev.value)
          /\ env_queue' = Append(Pop(env_queue), Event(ev.time, 1, "StorePut", 0, 0))
    /\ UNCHANGED <<patient_count, pc, engine, hospital, args_n_cubicles_1,
                   others>>

\* a put is processed: the queue of gets is looked at
PutProcessed ==
    /\ pc = "simulate"
    /\ LET ev == NextEvent(env_queue)
       IN /\ ev.kind = "StorePut"
          /\ now' = ev.time
          /\ treatment' = TriggerGet(treatment)
          /\ env_queue' = Pop(env_queue) \o GetEvents(treatment, ev.time)
    /\ UNCHANGED <<event_log, patient_count, pc, engine, hospital, args_n_cubicles_1,
                   others>>

\* the run ends; the log is handed to animate_activity_log
RunEnds ==
    /\ pc = "simulate"
    /\ LET ev == NextEvent(env_queue)
       IN /\ ev.kind = "until"
          /\ now' = ev.time
          /\ env_queue' = Pop(env_queue)
    /\ pc' = "sweep"
    /\ UNCHANGED <<event_log, treatment, patient_count, engine, hospital, args_n_cubicles_1,
                   others>>

NextSim ==
    \/ GeneratorStarts
    \/ PatientArrives
    \/ ExecuteArrival
    \/ ExecuteTreatmentBegins
    \/ ExecuteTreatmentComplete
    \/ PutProcessed
    \/ RunEnds
    \/ SweepSkip
    \/ SweepKeyError
    \/ SweepSnapshot
    \/ ReshapeRaises
    \/ ReshapeReturns
    \/ RankAndMerge
    \/ PositionRows
    \/ AssignIcons

SpecSim == InitSim /\ [][NextSim]_vars

(***************************************************************************)
(* ex_3: Hospital.  init_resources puts the beds 1..n_beds in the store;   *)
(* run starts the two arrivals generators and schedules the end of the     *)
(* run.  The unit of time is half a day: the generators wake once a day    *)
(* (2 units), the admission timeout is 0.5 to 1 day (1 or 2 units), a      *)
(* length of stay is positive.  A patient is the pair of its pathway and   *)
(* its id.  The request of a patient is "pending" while it waits in the    *)
(* queue of the store, "triggered" once the store has handed it a bed, and *)
(* "processed" once the environment has processed that event; the value of *)
(* the condition req | timeout holds the events processed by the time the  *)
(* condition itself is processed.  perform_audit only reads and is left    *)
(* out.                                                                    *)
(***************************************************************************)
Day == 2

AdmissionTimes == 1..2

LosTimes == 1..3

results_collection == SimUntil + 1

Pathways == {"Primary", "Revision"}

Request(req, item, timeout, admit) ==
    [req |-> req, item |-> item, timeout |-> timeout, admit |-> admit]

Updated(f, p, r) == [q \in (DOMAIN f) \cup {p} |-> IF q = p THEN r ELSE f[q]]

\* the requests once the queue of gets of the store has been looked at
Handed(reqs, store) ==
    IF GetServed(store)
    THEN LET p == Head(store.get_queue)
         IN Updated(reqs, p, [reqs[p] EXCEPT !.req = "triggered",
                                             !.item = Head(store.items)])
    ELSE reqs

\* Get.cancel at the end of the with block: a request that was not
\* triggered leaves the queue of the store
Cancel(store, reqs, p) ==
    IF reqs[p].req = "pending"
    THEN [store EXCEPT !.get_queue =
             SelectIdx(store.get_queue,
                       {i \in 1..Len(store.get_queue) : store.get_queue[i] # p})]
    ELSE store

InitBeds ==
    /\ event_log = <<>>
    /\ every_x_time_units = 1
    /\ limit_duration = 1
    /\ event_position_df = <<>>
    /\ wrap_queues_at = Null
    /\ minute = 0
    /\ patient_dfs = <<>>
    /\ regular_df = <<>>
    /\ final_step = <<>>
    /\ full_patient_df = <<>>
    /\ ranked_df = <<>>
    /\ merged_df = <<>>
    /\ resource_use = <<>>
    /\ queues = <<>>
    /\ full_patient_df_plus_pos = <<>>
    /\ pc = "hospital"
    /\ now = 0
    /\ treatment = [items |-> <<>>, get_queue |-> <<>>]
    /\ patient_count = 0
    /\ args_n_cubicles_1 = n_cubicles_1
    /\ NoReplications
    /\ NoFollowUp
    /\ pt_count = [Primary |-> 1, Revision |-> 1]
    /\ requests = <<>>
    /\ beds = [items |-> [i \in 1..n_beds |-> i], get_queue |-> <<>>]
    /\ env_queue = [i \in 1..n_beds |-> Event(0, 1, "StorePut", 0, 0)]
                   \o <<Event(0, 0, "Primary", 0, 0),
                        Event(0, 0, "Revision", 0, 0),
                        Event(results_collection, 0, "until", 0, 0)>>

ex_1 == <<treatment, patient_count, args_n_cubicles_1>>

\* a day of an arrivals generator: the patients of the day's slots are
\* started, then the generator waits for a day
PatientArrivalsGenerator(pathway) ==
    /\ LET ev == NextEvent(env_queue)
       IN /\ ev.kind = pathway
          /\ now' = ev.time
          /\ \E arrivals \in 0..1 :
                /\ pt_count' = [pt_count EXCEPT ![pathway] = @ + arrivals]
                /\ env_queue' =
                      Pop(env_queue)
                      \o [i \in 1..arrivals |->
                             Event(ev.time, 0, "Initialize",
                                   <<pathway, pt_count[pathway] + i - 1>>, 0)]
                      \o <<Event(ev.time + Day, 1, pathway, 0, 0)>>
    /\ UNCHANGED <<event_log, beds, requests, pc, engine, ex_1, others>>

patient_arrivals_generator_primary ==
    /\ pc = "hospital"
    /\ PatientArrivalsGenerator("Primary")

patient_arrivals_generator_revision ==
    /\ pc = "hospital"
    /\ PatientArrivalsGenerator("Revision")

\* service up to the yield: the arrival, the request of a bed, the entry
\* in the queue (a primary patient logs it, a revision patient does not),
\* the admission timeout and the condition req | timeout
ServiceArrival ==
    /\ pc = "hospital"
    /\ LET ev == NextEvent(env_queue)
           p == ev.proc
           asked == StoreGet(beds, p)
           made == Updated(requests, p, Request("pending", 0, "pending", "pending"))
       IN /\ ev.kind = "Initialize"
          /\ now' = ev.time
          /\ event_log' = event_log
                \o <<Entry(p[2], p[1], "arrival_departure", "arrival", ev.time, Null)>>
                \o (IF p[1] = "Primary"
                    THEN <<Entry(p[2], p[1], "queue", "enter_queue_for_bed",
                                 ev.time, Null)>>
                    ELSE <<>>)
          /\ beds' = TriggerGet(asked)
          /\ requests' = Handed(made, asked)
          /\ \E admission \in AdmissionTimes :
                env_queue' = Pop(env_queue)
                             \o GetEvents(asked, ev.time)
                             \o <<Event(ev.time + admission, 1, "admission", p, 0)>>
    /\ UNCHANGED <<pt_count, pc, engine, ex_1, others>>

\* an event of the condition is processed: the condition is triggered by
\* the first of the two
ConditionChecked(p, t) ==
    IF requests[p].admit = "pending" THEN <<Event(t, 1, "Condition", p, 0)>> ELSE <<>>

AdmitAfterCheck(p) == IF requests[p].admit = "pending" THEN "triggered" ELSE requests[p].admit

\* the get of a bed is processed
RequestProcessed ==
    /\ pc = "hospital"
    /\ LET ev == NextEvent(env_queue)
           p == ev.proc
       IN /\ ev.kind = "StoreGet"
          /\ now' = ev.time
          /\ requests' = [requests EXCEPT ![p].req = "processed",
                                          ![p].admit = AdmitAfterCheck(p)]
          /\ env_queue' = Pop(env_queue) \o ConditionChecked(p, ev.time)
    /\ UNCHANGED <<event_log, beds, pt_count, pc, engine, ex_1, others>>

\* the admission timeout is processed
AdmissionTimeoutProcessed ==
    /\ pc = "hospital"
    /\ LET ev == NextEvent(env_queue)
           p == ev.proc
       IN /\ ev.kind = "admission"
          /\ now' = ev.time
          /\ requests' = [requests EXCEPT ![p].timeout = "processed",
                                          ![p].admit = AdmitAfterCheck(p)]
          /\ env_queue' = Pop(env_queue) \o ConditionChecked(p, ev.time)
    /\ UNCHANGED <<event_log, beds, pt_count, pc, engine, ex_1, others>>

\* service resumes with req in admit: the stay in the bed begins
Admitted ==
    /\ pc = "hospital"
    /\ LET ev == NextEvent(env_queue)
           p == ev.proc
       IN /\ ev.kind = "Condition"
          /\ requests[p].req = "processed"
          /\ now' = ev.time
          /\ requests' = [requests EXCEPT ![p].admit = "built"]
          /\ event_log' = Append(event_log,
                                 Entry(p[2], p[1], "resource_use",
                                       "post_surgery_stay_begins", ev.time,
                                       Some(requests[p].item)))
          /\ \E los \in LosTimes :
                env_queue' = Append(Pop(env_queue),
                                    Event(ev.time + los, 1, "Timeout", p,
                                          requests[p].item))
    /\ UNCHANGED <<beds, pt_count, pc, engine, ex_1, others>>

\* service resumes with req not in admit: the surgery is cancelled and the
\* with block cancels the request
NoBedAvailable ==
    /\ pc = "hospital"
    /\ LET ev == NextEvent(env_queue)
           p == ev.proc
       IN /\ ev.kind = "Condition"
          /\ requests[p].req # "processed"
          /\ now' = ev.time
          /\ requests' = [requests EXCEPT ![p].admit = "built"]
          /\ event_log' = event_log
                \o <<Entry(p[2], p[1], "queue", "no_bed_available", ev.time, Null),
                     Entry(p[2], p[1], "arrival_departure", "depart",
                           ev.time + Day, Null)>>
          /\ beds' = Cancel(beds, requests, p)
          /\ env_queue' = Pop(env_queue)
    /\ UNCHANGED <<pt_count, pc, engine, ex_1, others>>

\* service resumes after the stay: the bed is put back, the patient departs
Discharged ==
    /\ pc = "hospital"
    /\ LET ev == NextEvent(env_queue)
           p == ev.proc
       IN /\ ev.kind = "Timeout"
          /\ now' = ev.time
          /\ event_log' = event_log
                \o <<Entry(p[2], p[1], "resource_use_end", "post_surgery_stay_ends",
                           ev.time, Some(ev.value)),
                     Entry(p[2], p[1], "queue", "discharged_after_stay", ev.time, Null),
                     Entry(p[2], p[1], "arrival_departure", "depart",
                           ev.time + Day, Null)>>
          /\ beds' = StorePut(beds, ev.value)
          /\ env_queue' = Append(Pop(env_queue), Event(ev.time, 1, "StorePut", 0, 0))
    /\ UNCHANGED <<pt_count, requests, pc, engine, ex_1, others>>

\* the put of a bed is processed: the queue of gets is looked at
BedPutProcessed ==
    /\ pc = "hospital"
    /\ LET ev == NextEvent(env_queue)
       IN /\ ev.kind = "StorePut"
          /\ now' = ev.time
          /\ beds' = TriggerGet(beds)
          /\ requests' = Handed(requests, beds)
          /\ env_queue' = Pop(env_queue) \o GetEvents(beds, ev.time)
    /\ UNCHANGED <<event_log, pt_count, pc, engine, ex_1, others>>

HospitalRunEnds ==
    /\ pc = "hospital"
    /\ LET ev == NextEvent(env_queue)
       IN /\ ev.kind = "until"
          /\ now' = ev.time
          /\ env_queue' = Pop(env_queue)
    /\ pc' = "audit"
    /\ UNCHANGED <<event_log, beds, pt_count, requests, engine, ex_1, others>>

NextBeds ==
    \/ patient_arrivals_generator_primary
    \/ patient_arrivals_generator_revision
    \/ ServiceArrival
    \/ RequestProcessed
    \/ AdmissionTimeoutProcessed
    \/ Admitted
    \/ NoBedAvailable
    \/ Discharged
    \/ BedPutProcessed
    \/ HospitalRunEnds

SpecBeds == InitBeds /\ [][NextBeds]_vars

(***************************************************************************)
(* ex_1: multiple_replications and single_run.  A call of                  *)
(* multiple_replications runs single_run for rep = 0 .. n_reps - 1 with    *)
(* random_no_set = scenario.random_number_set + rep, read when the run is  *)
(* made; single_run hands it to scenario.set_random_no_set, which stores   *)
(* it in scenario.random_number_set.  The results of a run are a function  *)
(* of its random_no_set, which is what calls records of it.  The two       *)
(* branches of return_detailed_logs make the same runs.  pd.concat of no   *)
(* results raises.                                                         *)
(***************************************************************************)
InitReps ==
    /\ event_log = <<>>
    /\ every_x_time_units = 1
    /\ limit_duration = 1
    /\ event_position_df = <<>>
    /\ wrap_queues_at = Null
    /\ minute = 0
    /\ patient_dfs = <<>>
    /\ regular_df = <<>>
    /\ final_step = <<>>
    /\ full_patient_df = <<>>
    /\ ranked_df = <<>>
    /\ merged_df = <<>>
    /\ resource_use = <<>>
    /\ queues = <<>>
    /\ full_patient_df_plus_pos = <<>>
    /\ pc = "caller"
    /\ now = 0
    /\ env_queue = <<>>
    /\ treatment = [items |-> <<>>, get_queue |-> <<>>]
    /\ patient_count = 0
    /\ args_n_cubicles_1 = n_cubicles_1
    /\ beds = [items |-> <<>>, get_queue |-> <<>>]
    /\ pt_count = [Primary |-> 1, Revision |-> 1]
    /\ requests = <<>>
    /\ random_number_set \in 0..MaxSeed
    /\ n_reps = 0
    /\ rep = 0
    /\ calls = <<>>
    /\ NoFollowUp

simulations == <<event_log, engine, now, env_queue, ex_1, hospital, ex_5>>

\* the caller calls multiple_replications on the scenario with some n_reps
\* (at most twice)
MultipleReplicationsCalled ==
    /\ pc = "caller"
    /\ Len(calls) < 2
    /\ calls' = Append(calls, [b |-> random_number_set, seeds |-> <<>>])
    /\ n_reps' \in 0..MaxReps
    /\ rep' = 0
    /\ pc' = "replications"
    /\ UNCHANGED <<random_number_set, simulations>>

\* scenario.set_random_no_set: the value of scenario.random_number_set
SetRandomNoSet(random_no_set) == random_no_set

\* one single_run of the comprehension
SingleRun ==
    /\ pc = "replications"
    /\ rep < n_reps
    /\ LET random_no_set == random_number_set + rep
       IN /\ random_number_set' = SetRandomNoSet(random_no_set)
          /\ calls' = [calls EXCEPT ![Len(calls)].seeds = Append(@, random_no_set)]
    /\ rep' = rep + 1
    /\ UNCHANGED <<n_reps, pc, simulations>>

MultipleReplicationsReturns ==
    /\ pc = "replications"
    /\ rep >= n_reps
    /\ calls[Len(calls)].seeds # <<>>
    /\ pc' = "caller"
    /\ UNCHANGED <<replications, simulations>>

\* no run was made: pd.concat([]) raises
MultipleReplicationsRaises ==
    /\ pc = "replications"
    /\ rep >= n_reps
    /\ calls[Len(calls)].seeds = <<>>
    /\ pc' = "error"
    /\ UNCHANGED <<replications, simulations>>

NextReps ==
    \/ MultipleReplicationsCalled
    \/ SingleRun
    \/ MultipleReplicationsReturns
    \/ MultipleReplicationsRaises

SpecReps == InitReps /\ [][NextReps]_vars

(***************************************************************************)
(* ex_5: the follow-up booking model (AssessmentReferralModel).  Time is   *)
(* counted in days.  Caseloads are counted in half caseload slots: a       *)
(* caseload of 1 is 2 and a caseload of 0.5 is 1.  A patient is named in   *)
(* the events of the environment by its index in referrals; its identifier  *)
(* f"{t}_{i}" is the pair <<t, i>>.                                        *)
(***************************************************************************)
LOW_PRIORITY_MIN_WAIT == 7
HIGH_PRIORITY_BOOKER_MIN_WAIT == 1
LOW_INTENSITY_FOLLOW_UP_TARGET_INTERVAL == 14
HIGH_INTENSITY_FOLLOW_UP_TARGET_INTERVAL == 7
LOW_PRIORITY_KEY_OFFSET == 1000000

\* the number of clinicians (columns of the slots file)
number_of_clinicians == 2

Clinics == 0..(number_of_clinicians - 1)

\* the slots file: the slots of every clinician on the five days of a week
weekly_slots == [day \in 0..4 |-> [clinic \in Clinics |-> 1]]

\* the values of prop_carve_out, in hundredths
PropCarveOut == {0, 100}

\* the samples of arrival_dist on a day
ReferralsPerDay == 0..2

\* the samples of clinic_dist: the demand file sends every referral to the
\* first clinic
HomeClinics == {0}

\* the days on which referrals arrive
ArrivalDays == 0..1

\* the samples of the number of follow-up appointments
FollowUpAppts == 0..1

\* numpy's round of n / d: to the nearest integer, a half to the even one
Round(n, d) ==
    LET q == n \div d
        r == n % d
    IN IF 2 * r < d THEN q
       ELSE IF 2 * r > d THEN q + 1
       ELSE IF q % 2 = 0 THEN q ELSE q + 1

\* (capacity_template * prop_carve_out).round().astype(np.uint8)
PriorityTemplate(prop) ==
    [day \in 0..4 |-> [clinic \in Clinics |->
        Round(weekly_slots[day][clinic] * prop, 100) % 256]]

\* the rows of a diary: the template and int(run_length * 1.5) copies of it
DiaryRows == 5 * ((run_length * 3) \div 2 + 1)

Days == 0..(DiaryRows - 1)

create_carve_out(prop) ==
    [day \in Days |-> PriorityTemplate(prop)[day % 5]]

create_slots(prop) ==
    [day \in Days |-> [clinic \in Clinics |->
        weekly_slots[day % 5][clinic] - PriorityTemplate(prop)[day % 5][clinic]]]

create_bookings ==
    [day \in Days |-> [clinic \in Clinics |-> 0]]

RECURSIVE SumOver(_, _)
SumOver(f, S) ==
    IF S = {} THEN 0
    ELSE LET x == CHOOSE y \in S : TRUE
         IN f[x] + SumOver(f, S \ {x})

\* np.floor(weekly_slots.sum() * caseload_multiplier) with the multiplier 1
caseload_slots_per_clinician ==
    [clinic \in Clinics |->
        2 * SumOver([day \in 0..4 |-> weekly_slots[day][clinic]], 0..4)]

\* the caseload files: every clinician without a patient, every clinician
\* with a full caseload, the first with half a slot left and the others
\* with a full one
ExistingCaseloads ==
    {[clinic \in Clinics |-> 0],
     caseload_slots_per_clinician,
     [clinic \in Clinics |-> IF clinic = 0 THEN caseload_slots_per_clinician[clinic] - 1
                             ELSE caseload_slots_per_clinician[clinic]]}

InitFollowUp ==
    /\ event_log = <<>>
    /\ every_x_time_units = 1
    /\ limit_duration = 1
    /\ event_position_df = <<>>
    /\ wrap_queues_at = Null
    /\ minute = 0
    /\ patient_dfs = <<>>
    /\ regular_df = <<>>
    /\ final_step = <<>>
    /\ full_patient_df = <<>>
    /\ ranked_df = <<>>
    /\ merged_df = <<>>
    /\ resource_use = <<>>
    /\ queues = <<>>
    /\ full_patient_df_plus_pos = <<>>
    /\ pc = "follow_up"
    /\ now = 0
    /\ env_queue = <<Event(0, 0, "generate_arrivals", 0, 0),
                     Event(run_length, 0, "until", 0, 0)>>
    /\ treatment = [items |-> <<>>, get_queue |-> <<>>]
    /\ patient_count = 0
    /\ args_n_cubicles_1 = n_cubicles_1
    /\ beds = [items |-> <<>>, get_queue |-> <<>>]
    /\ pt_count = [Primary |-> 1, Revision |-> 1]
    /\ requests = <<>>
    /\ NoReplications
    /\ \E prop \in PropCarveOut :
          /\ carve_out_slots = create_carve_out(prop)
          /\ available_slots = create_slots(prop)
    /\ bookings = create_bookings
    /\ existing_caseload_file \in ExistingCaseloads
    /\ existing_caseload = existing_caseload_file
    /\ waiting_for_clinician_store = {}
    /\ total_arrivals = 0
    /\ referrals = <<>>

rest_5 == <<engine, ex_1, hospital, replications>>

\* the next event of the environment is of kind kind
Stepping(kind) ==
    /\ pc = "follow_up"
    /\ env_queue # <<>>
    /\ NextEvent(env_queue).kind = kind

\* one dictionary of the event log; the keys a dictionary lacks are Null
LogEntry(patient, pathway, event_type, event, booked_clinic, time, type) ==
    [patient |-> patient, pathway |-> pathway, event_type |-> event_type,
     event |-> event, booked_clinic |-> booked_clinic, time |-> time,
     type |-> type]

\* PatientReferral.priority: the priority of the booker
Priority(high_priority) == IF high_priority = 1 THEN 2 ELSE 1

\* total_arrivals after the referrals 0..i of a day
ArrivalNumber(total, i) == total + ((i + 1) * (i + 2)) \div 2

\* the key execute_referral gives the patient in the store
StoreKey(priority, arrival_number) ==
    IF priority = 1 THEN arrival_number + LOW_PRIORITY_KEY_OFFSET ELSE arrival_number

\* the PatientReferral made for referral i of day t
PatientReferral(t, i, arrival) ==
    [referral_t |-> t, i |-> i, priority |-> Priority(arrival.high_priority),
     home_clinic |-> arrival.clinic_id, booked_clinic |-> arrival.clinic_id,
     arrival_number |-> ArrivalNumber(total_arrivals, i),
     assessment_t |-> Null, follow_up_intensity |-> Null, num_appts |-> Null,
     follow_up |-> Null]

\* what referral i of day t appends to the event log
ReferralLog(t, i, arrival) ==
    IF arrival.referred_out = 0
    THEN <<LogEntry(<<t, i>>, Priority(arrival.high_priority), "arrival_departure",
                    "arrival", Null, t, Null),
           LogEntry(<<t, i>>, Priority(arrival.high_priority), "queue",
                    "waiting_appointment_to_be_scheduled", Some(arrival.clinic_id),
                    t, Null)>>
    ELSE <<LogEntry(<<t, i>>, "Unsuitable for service", "arrival_departure",
                    "arrival", Null, t, Null),
           LogEntry(<<t, i>>, "Unsuitable for service", "queue",
                    "referred_out", Null, t, Null),
           LogEntry(<<t, i>>, "Unsuitable for service", "arrival_departure",
                    "depart", Null, t + 1, Null)>>

\* the referrals a day brings: triage, priority and home clinic of each
Arrivals(n) ==
    [1..n -> {a \in [referred_out : 0..1, high_priority : 0..1, clinic_id : HomeClinics] :
                 a.referred_out = 1 => a.high_priority = 0}]

Arrived == Cardinality({k \in 1..Len(event_log) : event_log[k].event = "arrival"})

\* generate_arrivals: one turn of its loop over the days
GenerateArrivals ==
    /\ Stepping("generate_arrivals")
    /\ LET t == NextEvent(env_queue).time
       IN \E n \in ReferralsPerDay :
            /\ Arrived + n <= MaxReferrals
            /\ n > 0 => t \in ArrivalDays
            /\ \E arrivals \in Arrivals(n) :
                 LET accepted == {k \in 1..n : arrivals[k].referred_out = 0}
                     made == [k \in 1..n |-> PatientReferral(t, k - 1, arrivals[k])]
                     index(k) == Len(referrals) + Cardinality({j \in accepted : j <= k})
                 IN /\ referrals' = referrals \o SelectIdx(made, accepted)
                    /\ waiting_for_clinician_store' =
                         waiting_for_clinician_store \cup
                         {[priority |-> StoreKey(made[k].priority, made[k].arrival_number),
                           item |-> index(k)] : k \in accepted}
                    /\ event_log' = event_log \o
                         Concat([k \in 1..n |-> ReferralLog(t, k - 1, arrivals[k])])
                    /\ total_arrivals' = ArrivalNumber(total_arrivals, n - 1)
                    /\ now' = t
                    /\ env_queue' = Pop(env_queue) \o
                         <<Event(t, 0, "book_new_clients", t, 0),
                           Event(t + 1, 1, "generate_arrivals", 0, 0)>>
    /\ UNCHANGED <<pc, available_slots, carve_out_slots, bookings,
                   existing_caseload_file, existing_caseload, rest_5>>

\* check_for_availability and get_available_clinicians: the caseload a
\* clinician has left
available_caseload ==
    [clinic \in Clinics |-> caseload_slots_per_clinician[clinic] - existing_caseload[clinic]]

\* sum([c if c>0 else 0 for c in available_caseload])
cl_count ==
    SumOver([clinic \in Clinics |->
                IF available_caseload[clinic] > 0 THEN available_caseload[clinic] ELSE 0],
            Clinics)

\* the clinicians with c >= 0.5
get_available_clinicians == {clinic \in Clinics : available_caseload[clinic] >= 1}

\* a bug of the queue: the item with the largest key
QueueGetLargest(store) ==
    CHOOSE x \in store : \A y \in store : y.priority <= x.priority

\* queue.PriorityQueue.get: the item with the smallest key
QueueGet(store) ==
    CHOOSE x \in store : \A y \in store : x.priority <= y.priority

\* the head of the loop of book_new_clients_if_capacity, run by process b
BookingLoop(b) ==
    IF waiting_for_clinician_store = {} \/ cl_count < 1
    THEN /\ env_queue' = Pop(env_queue) \o
                <<Event(NextEvent(env_queue).time, 1, "book_new_clients_done", b, 0)>>
         /\ UNCHANGED waiting_for_clinician_store
    ELSE LET front == QueueGet(waiting_for_clinician_store)
         IN /\ waiting_for_clinician_store' = waiting_for_clinician_store \ {front}
            /\ env_queue' = Pop(env_queue) \o
                   <<Event(NextEvent(env_queue).time, 0, "execute_assessment_booking",
                           front.item, b)>>

\* the process of book_new_clients_if_capacity of a day starts
BookNewClientsStarts ==
    /\ Stepping("book_new_clients")
    /\ now' = NextEvent(env_queue).time
    /\ BookingLoop(NextEvent(env_queue).proc)
    /\ UNCHANGED <<pc, event_log, available_slots, carve_out_slots, bookings,
                   existing_caseload_file, existing_caseload, total_arrivals,
                   referrals, rest_5>>

\* the pooling file: every clinician is pooled with every other
pooling_np == [clinic \in Clinics |-> [other \in Clinics |-> 1]]

MinOf(S) == CHOOSE i \in S : \A j \in S : i <= j

\* the (day, clinic) pairs find_slot can return for slots counted by slots,
\* from day from on, among the clinics options; none when it raises
FindSlot(slots, from, options) ==
    LET days == {day \in Days :
                    /\ day >= from
                    /\ SumOver([clinic \in options |-> slots[day][clinic]], options) > 0}
    IN IF days = {} THEN {}
       ELSE {<<MinOf(days), clinic>> : clinic \in {c \in options : slots[MinOf(days)][c] > 0}}

LowPriorityFindSlot(t, clinic_id, limit_clinic_choice) ==
    FindSlot(available_slots, t + LOW_PRIORITY_MIN_WAIT,
             {clinic \in Clinics : pooling_np[clinic_id][clinic] = 1} \cap limit_clinic_choice)

HighPriorityFindSlot(t, clinic_id) ==
    FindSlot([day \in Days |-> [clinic \in Clinics |->
                 carve_out_slots[day][clinic] + available_slots[day][clinic]]],
             t + HIGH_PRIORITY_BOOKER_MIN_WAIT,
             {clinic \in Clinics : pooling_np[clinic_id][clinic] = 1})

LowPriorityBookSlot(booking_t, clinic_id) ==
    /\ available_slots' = [available_slots EXCEPT ![booking_t][clinic_id] = @ - 1]
    /\ bookings' = [bookings EXCEPT ![booking_t][clinic_id] = (@ + 1) % 256]
    /\ UNCHANGED carve_out_slots

HighPriorityBookSlot(booking_t, clinic_id) ==
    /\ IF carve_out_slots[booking_t][clinic_id] > 0
       THEN /\ carve_out_slots' = [carve_out_slots EXCEPT ![booking_t][clinic_id] = @ - 1]
            /\ UNCHANGED available_slots
       ELSE /\ available_slots' = [available_slots EXCEPT ![booking_t][clinic_id] = @ - 1]
            /\ UNCHANGED carve_out_slots
    /\ bookings' = [bookings EXCEPT ![booking_t][clinic_id] = (@ + 1) % 256]

\* what the booker of a patient finds at time t
AssessmentSlots(patient, t) ==
    IF patient.priority = 2
    THEN HighPriorityFindSlot(t, patient.home_clinic)
    ELSE LowPriorityFindSlot(t, patient.home_clinic, get_available_clinicians)

\* execute_assessment_booking up to its yield
ExecuteAssessmentBooking ==
    /\ Stepping("execute_assessment_booking")
    /\ LET e == NextEvent(env_queue)
           patient == referrals[e.proc]
       IN /\ \E slot \in AssessmentSlots(patient, e.time) :
                /\ IF patient.priority = 2
                   THEN HighPriorityBookSlot(slot[1], slot[2])
                   ELSE LowPriorityBookSlot(slot[1], slot[2])
                /\ referrals' = [referrals EXCEPT ![e.proc].assessment_t = Some(slot[1]),
                                                  ![e.proc].booked_clinic = slot[2]]
                /\ event_log' = Append(event_log,
                       LogEntry(<<patient.referral_t, patient.i>>, patient.priority, "queue",
                                "appointment_booked_waiting", Some(slot[2]), e.time, Null))
                /\ existing_caseload' =
                       [existing_caseload EXCEPT
                           ![slot[2]] = @ + (IF patient.priority = 2 THEN 2 ELSE 1)]
          /\ now' = e.time
          /\ env_queue' = Pop(env_queue) \o
                 <<Event(e.time, 0, "execute_assessment_appointment", e.proc, e.value)>>
    /\ UNCHANGED <<pc, existing_caseload_file, waiting_for_clinician_store,
                   total_arrivals, rest_5>>

\* find_slot raises (no clinic to choose from, or no day with a slot): the
\* run ends with the exception
ExecuteAssessmentBookingRaises ==
    /\ Stepping("execute_assessment_booking")
    /\ AssessmentSlots(referrals[NextEvent(env_queue).proc], NextEvent(env_queue).time) = {}
    /\ now' = NextEvent(env_queue).time
    /\ env_queue' = Pop(env_queue)
    /\ pc' = "error"
    /\ UNCHANGED <<event_log, ex_5, rest_5>>

\* execute_assessment_appointment up to its timeout
ExecuteAssessmentAppointment ==
    /\ Stepping("execute_assessment_appointment")
    /\ LET e == NextEvent(env_queue)
           patient == referrals[e.proc]
       IN /\ now' = e.time
          /\ env_queue' = Pop(env_queue) \o
                 <<Event(e.time + (patient.assessment_t[1] - patient.referral_t), 1,
                         "assessment", e.proc, e.value)>>
    /\ UNCHANGED <<pc, event_log, ex_5, rest_5>>

\* execute_assessment_appointment after its timeout
HaveAssessment ==
    /\ Stepping("assessment")
    /\ LET e == NextEvent(env_queue)
           patient == referrals[e.proc]
       IN /\ now' = e.time
          /\ event_log' = Append(event_log,
                 LogEntry(<<patient.referral_t, patient.i>>, patient.priority, "queue",
                          "have_appointment", Some(patient.booked_clinic), e.time,
                          Some("assessment")))
          /\ env_queue' = Pop(env_queue) \o
                 <<Event(e.time, 0, "ongoing_regular_appointments", e.proc, e.value)>>
    /\ UNCHANGED <<pc, ex_5, rest_5>>

\* RepeatBooker.find_slot: np.argmax(clinic_slots > 0) is the first day with
\* a slot and 0 when no day has one
RepeatFindSlot(t, min_wait, clinic_id) ==
    LET days == {day \in Days : day >= t + min_wait /\ available_slots[day][clinic_id] > 0}
    IN IF days = {} THEN t + min_wait ELSE MinOf(days)

\* the min_wait of the RepeatBooker of a follow-up intensity
RepeatMinWait(follow_up_intensity) ==
    IF follow_up_intensity = 1
    THEN HIGH_INTENSITY_FOLLOW_UP_TARGET_INTERVAL - 1
    ELSE LOW_INTENSITY_FOLLOW_UP_TARGET_INTERVAL - 1

\* the turn i of the loop over the follow-up appointments of a patient and,
\* after the last, the departure; caseload and log are what the code before
\* it has made of existing_caseload and the event log
FollowUpLoop(e, patient, i, caseload, log) ==
    LET id == <<patient.referral_t, patient.i>>
        clinic == patient.booked_clinic
        intensity == patient.follow_up_intensity[1]
        best_t == RepeatFindSlot(e.time, RepeatMinWait(intensity), clinic)
    IN IF i < patient.num_appts[1]
       THEN IF best_t \notin Days
            THEN \* np.argmax of an empty slice raises
                 /\ pc' = "error"
                 /\ env_queue' = Pop(env_queue)
                 /\ event_log' = log
                 /\ existing_caseload' = caseload
                 /\ referrals' = [referrals EXCEPT ![e.proc] = patient]
                 /\ UNCHANGED <<available_slots, carve_out_slots, bookings>>
            ELSE /\ available_slots' = [available_slots EXCEPT ![best_t][clinic] = @ - 1]
                 /\ bookings' = [bookings EXCEPT ![best_t][clinic] = (@ + 1) % 256]
                 /\ event_log' = Append(log,
                        LogEntry(id, patient.priority, "queue",
                                 "follow_up_appointment_booked_waiting", Some(clinic),
                                 e.time + 1, Null))
                 /\ env_queue' = Pop(env_queue) \o
                        <<Event(best_t, 1, "follow_up", e.proc, e.value)>>
                 /\ existing_caseload' = caseload
                 /\ referrals' = [referrals EXCEPT ![e.proc] =
                                     [patient EXCEPT !.follow_up = Some(i)]]
                 /\ UNCHANGED <<pc, carve_out_slots>>
       ELSE /\ existing_caseload' =
                [caseload EXCEPT ![clinic] = @ - (IF intensity = 1 THEN 2 ELSE 1)]
            /\ event_log' = Append(log,
                   LogEntry(id, patient.priority, "arrival_departure", "depart", Null,
                            e.time + 1, Null))
            /\ env_queue' = Pop(env_queue) \o
                   <<Event(e.time, 1, "ongoing_done", e.proc, e.value)>>
            /\ referrals' = [referrals EXCEPT ![e.proc] = patient]
            /\ UNCHANGED <<pc, available_slots, carve_out_slots, bookings>>

\* a bug of the caseload: no adjustment once the intensity is known
IntensityAdjustmentNone(priority, follow_up_intensity) == 0

\* the adjustment of the caseload once the intensity is known
IntensityAdjustment(priority, follow_up_intensity) ==
    IF follow_up_intensity = 0 /\ priority = 2 THEN 0 - 1
    ELSE IF follow_up_intensity = 1 /\ priority = 1 THEN 1
    ELSE 0

\* ongoing_regular_appointments up to its first yield or its end
OngoingRegularAppointments ==
    /\ Stepping("ongoing_regular_appointments")
    /\ LET e == NextEvent(env_queue)
           patient == referrals[e.proc]
           clinic == patient.booked_clinic
       IN /\ now' = e.time
          /\ \E follow_up_y \in BOOLEAN :
               IF ~follow_up_y
               THEN /\ event_log' = Append(event_log,
                           LogEntry(<<patient.referral_t, patient.i>>, patient.priority,
                                    "arrival_departure", "depart", Null, e.time + 1, Null))
                    /\ existing_caseload' =
                           [existing_caseload EXCEPT
                               ![clinic] = @ - (IF patient.priority = 2 THEN 2 ELSE 1)]
                    /\ env_queue' = Pop(env_queue) \o
                           <<Event(e.time, 1, "ongoing_done", e.proc, e.value)>>
                    /\ UNCHANGED <<pc, available_slots, carve_out_slots, bookings, referrals>>
               ELSE \E follow_up_intensity \in 0..1, num_appts \in FollowUpAppts :
                        FollowUpLoop(e,
                            [patient EXCEPT !.follow_up_intensity = Some(follow_up_intensity),
                                            !.num_appts = Some(num_appts)],
                            0,
                            [existing_caseload EXCEPT
                                ![clinic] = @ + IntensityAdjustment(patient.priority,
                                                                    follow_up_intensity)],
                            event_log)
    /\ UNCHANGED <<existing_caseload_file, waiting_for_clinician_store, total_arrivals,
                   rest_5>>

\* ongoing_regular_appointments after the timeout of a follow-up appointment
HaveFollowUp ==
    /\ Stepping("follow_up")
    /\ LET e == NextEvent(env_queue)
           patient == referrals[e.proc]
       IN /\ now' = e.time
          /\ FollowUpLoop(e, patient, patient.follow_up[1] + 1, existing_caseload,
                 Append(event_log,
                     LogEntry(<<patient.referral_t, patient.i>>, patient.priority, "queue",
                              "have_appointment", Some(patient.booked_clinic), e.time,
                              Some("follow-up"))))
    /\ UNCHANGED <<existing_caseload_file, waiting_for_clinician_store, total_arrivals,
                   rest_5>>

\* execute_assessment_appointment ends when ongoing_regular_appointments has
AssessmentAppointmentEnds ==
    /\ Stepping("ongoing_done")
    /\ LET e == NextEvent(env_queue)
       IN /\ now' = e.time
          /\ env_queue' = Pop(env_queue) \o
                 <<Event(e.time, 1, "appointment_done", e.proc, e.value)>>
    /\ UNCHANGED <<pc, event_log, ex_5, rest_5>>

\* execute_assessment_booking ends when execute_assessment_appointment has
AssessmentBookingEnds ==
    /\ Stepping("appointment_done")
    /\ LET e == NextEvent(env_queue)
       IN /\ now' = e.time
          /\ env_queue' = Pop(env_queue) \o
                 <<Event(e.time, 1, "booking_done", e.proc, e.value)>>
    /\ UNCHANGED <<pc, event_log, ex_5, rest_5>>

\* book_new_clients_if_capacity goes on when execute_assessment_booking ends
BookNewClientsResumes ==
    /\ Stepping("booking_done")
    /\ now' = NextEvent(env_queue).time
    /\ BookingLoop(NextEvent(env_queue).value)
    /\ UNCHANGED <<pc, event_log, available_slots, carve_out_slots, bookings,
                   existing_caseload_file, existing_caseload, total_arrivals,
                   referrals, rest_5>>

\* the event of an ended process of book_new_clients_if_capacity: nobody
\* waits for it
BookNewClientsEnds ==
    /\ Stepping("book_new_clients_done")
    /\ now' = NextEvent(env_queue).time
    /\ env_queue' = Pop(env_queue)
    /\ UNCHANGED <<pc, event_log, ex_5, rest_5>>

\* env.run(run_length) ends
FollowUpRunEnds ==
    /\ Stepping("until")
    /\ now' = NextEvent(env_queue).time
    /\ env_queue' = Pop(env_queue)
    /\ pc' = "follow_up_done"
    /\ UNCHANGED <<event_log, ex_5, rest_5>>

NextFollowUp ==
    \/ GenerateArrivals
    \/ BookNewClientsStarts
    \/ ExecuteAssessmentBooking
    \/ ExecuteAssessmentBookingRaises
    \/ ExecuteAssessmentAppointment
    \/ HaveAssessment
    \/ OngoingRegularAppointments
    \/ HaveFollowUp
    \/ AssessmentAppointmentEnds
    \/ AssessmentBookingEnds
    \/ BookNewClientsResumes
    \/ BookNewClientsEnds
    \/ FollowUpRunEnds

SpecFollowUp == InitFollowUp /\ [][NextFollowUp]_vars

(***************************************************************************)
(* Notions of the specification the claims are stated with.                *)
(***************************************************************************)
Entities == {event_log[i].patient : i \in 1..Len(event_log)}

EntriesOf(e, ev) ==
    {i \in 1..Len(event_log) : event_log[i].patient = e /\ event_log[i].event = ev}

HasArrival(e) == EntriesOf(e, "arrival") # {}
HasDepart(e) == EntriesOf(e, "depart") # {}
ArrivalTime(e) == event_log[CHOOSE i \in EntriesOf(e, "arrival") : TRUE].time
DepartTime(e) == event_log[CHOOSE i \in EntriesOf(e, "depart") : TRUE].time

\* the active set of the Snapshot Sampler
Active(e, T) ==
    /\ HasArrival(e)
    /\ ArrivalTime(e) <= T
    /\ (~HasDepart(e) \/ DepartTime(e) >= T)

\* the sampled instants: the multiples of the step in [0, horizon)
Grid == {T \in 0..(limit_duration - 1) : \E k \in 0..limit_duration : T = k * every_x_time_units}

\* the sampled instants the sweep has passed
Visited == {T \in Grid : T < minute}

\* the snapshot rows emitted so far
Emitted == Concat(patient_dfs)

HasRow(df, e, T) == \E i \in 1..Len(df) : df[i].patient = e /\ df[i].minute = T

Reshaped == pc \in {"reshaped", "merged", "positioned", "done"}

\* the row is a copy of entry i of the log
CopyOf(r, i) ==
    /\ r.patient = event_log[i].patient
    /\ r.pathway = event_log[i].pathway
    /\ r.event_type = event_log[i].event_type
    /\ r.event = event_log[i].event
    /\ r.time = event_log[i].time
    /\ r.resource_id = event_log[i].resource_id

\* the entries of e with time <= T
Seen(e, T) == {i \in 1..Len(event_log) : event_log[i].patient = e /\ event_log[i].time <= T}

(***************************************************************************)
(* C1.  Presence correctness: for every entity e and every sampled instant *)
(* T the sweep has passed, a snapshot row of e stamped T has been emitted  *)
(* if and only if arrival_time(e) <= T and e has no depart entry or        *)
(* departure_time(e) >= T, whatever the pathway and event_type of the      *)
(* arrival and depart entries.                                             *)
(***************************************************************************)
C1_PresenceCorrect ==
    \A e \in Entities : \A T \in Visited :
        HasRow(Emitted, e, T) <=> Active(e, T)

(***************************************************************************)
(* C2.  Latest-event selection: every snapshot row of entity e stamped T   *)
(* is a copy of an entry of e with time <= T whose time is the greatest    *)
(* among the entries of e with time <= T; no row shows an entry with       *)
(* time > T.                                                               *)
(***************************************************************************)
C2_LatestEvent ==
    \A k \in 1..Len(Emitted) :
        LET r == Emitted[k]
        IN /\ r.time <= r.minute
           /\ \E i \in Seen(r.patient, r.minute) :
                 /\ CopyOf(r, i)
                 /\ \A j \in Seen(r.patient, r.minute) :
                       event_log[j].time <= event_log[i].time

\* with a step of 2: a row at T whose entity has a later entry, and a row that
\* shows the last of two entries with different times inside one sampling interval
C2_Witness ==
    /\ every_x_time_units = 2
    /\ \E k \in 1..Len(Emitted) :
          \E i \in 1..Len(event_log) :
              /\ event_log[i].patient = Emitted[k].patient
              /\ event_log[i].time > Emitted[k].minute
    /\ \E k \in 1..Len(Emitted) :
          LET r == Emitted[k]
          IN \E i, j \in Seen(r.patient, r.minute) :
                /\ event_log[i].time < event_log[j].time
                /\ event_log[i].time > r.minute - every_x_time_units
                /\ CopyOf(r, j)

(***************************************************************************)
(* C3.  Tie-break: when several entries of the entity with time <= T share *)
(* the latest time, the snapshot row at T is a copy of the one that is     *)
(* latest in the log.                                                      *)
(***************************************************************************)
LatestSeen(e, T) ==
    {i \in Seen(e, T) : \A j \in Seen(e, T) : event_log[j].time <= event_log[i].time}

MaxOf(S) == CHOOSE i \in S : \A j \in S : j <= i

C3_TieBreak ==
    \A k \in 1..Len(Emitted) :
        LET r == Emitted[k]
        IN /\ LatestSeen(r.patient, r.minute) # {}
           /\ CopyOf(r, MaxOf(LatestSeen(r.patient, r.minute)))

\* a row whose entity has two entries with the same, latest time
C3_Witness ==
    \E k \in 1..Len(Emitted) :
        LET r == Emitted[k]
        IN /\ Cardinality(LatestSeen(r.patient, r.minute)) >= 2
           /\ CopyOf(r, MaxOf(LatestSeen(r.patient, r.minute)))
           /\ r.event = "depart"

(***************************************************************************)
(* C4.  Single placement: the table reshape_for_animations returns and the *)
(* positioned table animate_activity_log returns hold no two rows with the *)
(* same patient and the same minute, and the minute of the exit row of a   *)
(* patient is the minute of none of its regular rows.                      *)
(***************************************************************************)
SinglePlacement(df) ==
    \A i, j \in 1..Len(df) :
        (df[i].patient = df[j].patient /\ df[i].minute = df[j].minute) => i = j

C4_SinglePlacement ==
    /\ Reshaped =>
          /\ SinglePlacement(full_patient_df)
          /\ \A i \in 1..Len(final_step) : \A k \in 1..Len(regular_df) :
                regular_df[k].patient = final_step[i].patient
                    => regular_df[k].minute # final_step[i].minute
    /\ pc \in {"positioned", "done"} => SinglePlacement(full_patient_df_plus_pos)

\* the call has returned a positioned table with two patients in one frame,
\* one of them in several frames and with its exit row
C4_Witness ==
    /\ pc = "done"
    /\ \E i, j, k \in 1..Len(full_patient_df_plus_pos) :
          LET df == full_patient_df_plus_pos
          IN /\ df[i].patient # df[j].patient
             /\ df[i].minute = df[j].minute
             /\ df[k].patient = df[i].patient
             /\ df[k].minute > df[i].minute
             /\ df[k].event = "exit"

(***************************************************************************)
(* C5.  Sampling grid: every regular snapshot row is stamped with a        *)
(* multiple of the step that lies in [0, horizon), and every such instant  *)
(* the sweep has passed at which some entity is active has rows.           *)
(***************************************************************************)
C5_SamplingGrid ==
    /\ \A k \in 1..Len(Emitted) : Emitted[k].minute \in Grid
    /\ \A T \in Visited :
          (\E e \in Entities : Active(e, T))
              => \E k \in 1..Len(Emitted) : Emitted[k].minute = T

(***************************************************************************)
(* C6.  Synthetic exit row: every patient with a regular snapshot row gets *)
(* exactly one appended row, named "exit" and stamped with the patient's   *)
(* last regular minute plus the step; a patient without a regular row gets *)
(* none; the returned table holds the regular rows and these rows only.    *)
(***************************************************************************)
RowsOf(df, e) == {i \in 1..Len(df) : df[i].patient = e}

LastMinute(df, e) ==
    LET S == {df[i].minute : i \in RowsOf(df, e)}
    IN CHOOSE m \in S : \A n \in S : n <= m

C6_ExitRow ==
    Reshaped =>
        /\ \A e \in Entities :
              IF RowsOf(regular_df, e) # {}
              THEN /\ Cardinality(RowsOf(final_step, e)) = 1
                   /\ \A i \in RowsOf(final_step, e) :
                         /\ final_step[i].event = "exit"
                         /\ final_step[i].minute =
                               LastMinute(regular_df, e) + every_x_time_units
                         /\ \E k \in 1..Len(full_patient_df) :
                               full_patient_df[k] = final_step[i]
                   /\ Cardinality({k \in RowsOf(full_patient_df, e) :
                                      full_patient_df[k].event = "exit"}) = 1
              ELSE /\ RowsOf(final_step, e) = {}
                   /\ RowsOf(full_patient_df, e) = {}
        /\ Len(full_patient_df) = Len(regular_df) + Len(final_step)

\* a step of 2, one patient with several regular rows and another patient of
\* the log with none
C6_Witness ==
    /\ Reshaped
    /\ every_x_time_units = 2
    /\ \E e \in Entities : Cardinality(RowsOf(regular_df, e)) >= 2
    /\ \E e \in Entities : RowsOf(regular_df, e) = {}

(***************************************************************************)
(* Notions of the layout claims.                                           *)
(***************************************************************************)
Positioned == pc \in {"positioned", "done"}

\* the names of the queue stages: the events the log records as "queue"
QueueStages ==
    {event_log[i].event : i \in {k \in 1..Len(event_log) : event_log[k].event_type = "queue"}}

\* the place in the log of the entry a row shows
LogIndex(r) == MaxOf({i \in 1..Len(event_log) : CopyOf(r, i)})

\* row a began waiting before row b (ties: the entry earlier in the log)
BeganBefore(a, b) == LexLess(<<a.time, LogIndex(a)>>, <<b.time, LogIndex(b)>>)

SameGroup(a, b) == a.event = b.event /\ a.minute = b.minute

Anchor(ev) ==
    event_position_df[CHOOSE k \in 1..Len(event_position_df) :
                          event_position_df[k].event = ev]

(***************************************************************************)
(* C7.  Queue rank order: in every (event, minute) group of a queue stage  *)
(* the rank of a row is 1 plus the number of rows of the group whose       *)
(* entity began waiting earlier (ties: earlier in the log), so the ranks   *)
(* are 1..n in that order; with wrap_queues_at unset x_final strictly      *)
(* decreases in that order.                                                *)
(***************************************************************************)
C7_QueueRankOrder ==
    Positioned =>
        \A i \in 1..Len(queues) :
            queues[i].event \in QueueStages =>
                LET G == {j \in 1..Len(queues) : SameGroup(queues[j], queues[i])}
                IN /\ queues[i].rank =
                         1 + Cardinality({j \in G : BeganBefore(queues[j], queues[i])})
                   /\ wrap_queues_at = Null =>
                         \A j \in G :
                             BeganBefore(queues[j], queues[i])
                                 => queues[j].x_final[1] > queues[i].x_final[1]

\* three entities that began to wait at three different times share a frame
\* of the queue, wrap_queues_at unset, in a log that is not in clock order
C7_Witness ==
    /\ Positioned
    /\ wrap_queues_at = Null
    /\ \E i, j, k \in 1..Len(queues) :
          /\ queues[i].event \in QueueStages
          /\ SameGroup(queues[i], queues[j])
          /\ SameGroup(queues[j], queues[k])
          /\ queues[i].time < queues[j].time
          /\ queues[j].time < queues[k].time
          /\ LogIndex(queues[i]) > LogIndex(queues[k])
          /\ queues[i].rank = 1
          /\ queues[k].rank = 3

(***************************************************************************)
(* C8.  Queue non-overlap: two different rows of the queue rows with the   *)
(* same event and minute never have the same (x_final, y_final), with      *)
(* wrap_queues_at unset or any positive integer.                           *)
(***************************************************************************)
C8_QueueNonOverlap ==
    Positioned =>
        \A i, j \in 1..Len(queues) :
            (i # j /\ SameGroup(queues[i], queues[j]))
                => <<queues[i].x_final, queues[i].y_final>>
                       # <<queues[j].x_final, queues[j].y_final>>

\* a wrapped queue that spans three visual rows
C8_Witness ==
    /\ Positioned
    /\ wrap_queues_at # Null
    /\ \E i, j, k \in 1..Len(queues) :
          /\ queues[i].event \in QueueStages
          /\ SameGroup(queues[i], queues[j])
          /\ SameGroup(queues[j], queues[k])
          /\ queues[i].row = Some(0)
          /\ queues[j].row = Some(1)
          /\ queues[k].row = Some(2)
          /\ queues[i].x_final = queues[j].x_final

(***************************************************************************)
(* C9.  Resource slot stability: every row of the resource_use rows has    *)
(* x_final = anchor x - resource_id * gap_between_resources and            *)
(* y_final = anchor y, so rows of one resource at one stage have the same  *)
(* coordinates in every frame.                                             *)
(***************************************************************************)
C9_ResourceSlot ==
    Positioned =>
        /\ \A i \in 1..Len(resource_use) :
              LET r == resource_use[i]
              IN /\ r.x_final =
                       Some(Anchor(r.event).x - r.resource_id[1] * gap_between_resources)
                 /\ r.y_final = Some(Anchor(r.event).y)
        /\ \A i, j \in 1..Len(resource_use) :
              (/\ resource_use[i].event = resource_use[j].event
               /\ resource_use[i].resource_id = resource_use[j].resource_id)
                  => /\ resource_use[i].x_final = resource_use[j].x_final
                     /\ resource_use[i].y_final = resource_use[j].y_final

\* resource 1 is shown in one frame alone and in another frame next to
\* resource 2, with different ranks
C9_Witness ==
    /\ Positioned
    /\ \E i, j, k \in 1..Len(resource_use) :
          /\ resource_use[i].event = "treatment_begins"
          /\ resource_use[j].event = "treatment_begins"
          /\ resource_use[k].event = "treatment_begins"
          /\ resource_use[i].resource_id = Some(1)
          /\ resource_use[j].resource_id = Some(1)
          /\ resource_use[k].resource_id = Some(2)
          /\ resource_use[i].minute # resource_use[j].minute
          /\ resource_use[k].minute = resource_use[j].minute
          /\ resource_use[i].rank # resource_use[j].rank
          /\ \A m \in 1..Len(resource_use) :
                resource_use[m].minute = resource_use[i].minute => m = i

(***************************************************************************)
(* C10.  Wrap correctness: with wrap_queues_at = w the queue rows with     *)
(* of a queue stage with ranks 1..w are on row 0, those with ranks         *)
(* w+1..2w on row 1, and so on (row = (rank - 1) div w).                   *)
(***************************************************************************)
C10_WrapCorrect ==
    (Positioned /\ wrap_queues_at # Null) =>
        \A i \in 1..Len(queues) :
            queues[i].event \in QueueStages =>
                queues[i].row = Some((queues[i].rank - 1) \div wrap_queues_at[1])

C12_QueueBaseOffset ==
    (Positioned /\ wrap_queues_at = Null) =>
        /\ \A i \in 1..Len(queues) :
              LET r == queues[i]
              IN /\ r.x_final = Some(Anchor(r.event).x - r.rank * gap_between_entities)
                 /\ r.y_final = Some(Anchor(r.event).y)
        /\ \A i, j \in 1..Len(queues) :
              (queues[i].event = queues[j].event /\ queues[i].rank = queues[j].rank)
                  => /\ queues[i].x_final = queues[j].x_final
                     /\ queues[i].y_final = queues[j].y_final

\* the head of a queue is shown in one frame alone and in another frame
\* with two entities behind it
C12_Witness ==
    /\ Positioned
    /\ wrap_queues_at = Null
    /\ \E i, j \in 1..Len(queues) :
          /\ queues[i].event \in QueueStages
          /\ queues[i].event = queues[j].event
          /\ queues[i].rank = 1
          /\ queues[j].rank = 1
          /\ Cardinality({k \in 1..Len(queues) : SameGroup(queues[k], queues[i])}) = 1
          /\ Cardinality({k \in 1..Len(queues) : SameGroup(queues[k], queues[j])}) = 3

(***************************************************************************)
(* Notions of the claims about the departure.                              *)
(***************************************************************************)
\* the depart entry of e has the pathway and the event_type of its arrival
DepartMatchesArrival(e) ==
    LET a == event_log[CHOOSE i \in EntriesOf(e, "arrival") : TRUE]
        d == event_log[CHOOSE i \in EntriesOf(e, "depart") : TRUE]
    IN a.pathway = d.pathway /\ a.event_type = d.event_type

\* the entities that depart at a sampled instant
DepartOnGrid ==
    {e \in Entities : HasArrival(e) /\ HasDepart(e) /\ DepartTime(e) \in Grid}

ExitMinuteOf(e) ==
    final_step[CHOOSE i \in 1..Len(final_step) : final_step[i].patient = e].minute

\* the positioned rows of minute T
Frame(T) ==
    SelectIdx(full_patient_df_plus_pos,
              {i \in 1..Len(full_patient_df_plus_pos) :
                  full_patient_df_plus_pos[i].minute = T})

C15_MissingResourceId ==
    (/\ Positioned
     /\ every_x_time_units > 0
     /\ limit_duration > 0
     /\ \E i \in 1..Len(event_log) :
           event_log[i].event_type = "resource_use" /\ event_log[i].resource_id = Null)
        => \A k \in 1..Len(full_patient_df_plus_pos) :
              ~(/\ full_patient_df_plus_pos[k].event_type = "resource_use"
                /\ full_patient_df_plus_pos[k].resource_id = Null)

(***************************************************************************)
(* C16.  Invalid sampling parameters: a call with every_x_time_units <= 0  *)
(* or limit_duration <= 0 never leaves the entry of the engine except for  *)
(* the outcome InvalidSamplingParametersError: no iteration of the sweep   *)
(* is made, no snapshot is built and no other outcome is reached.          *)
(***************************************************************************)
C16_InvalidSampling ==
    (every_x_time_units <= 0 \/ limit_duration <= 0) =>
        /\ pc \in {"sweep", "invalid_sampling_parameters"}
        /\ minute = 0
        /\ patient_dfs = <<>>

(***************************************************************************)
(* C17.  Missing arrival: when some entity of the log has no "arrival"     *)
(* entry (and the step and the duration are positive),                     *)
(* reshape_for_animations returns no table.                                *)
(***************************************************************************)
ValidSampling == every_x_time_units > 0 /\ limit_duration > 0

C17_MissingArrival ==
    (ValidSampling /\ \E e \in Entities : ~HasArrival(e)) => ~Reshaped

(***************************************************************************)
(* C18.  Negative time: when the arrival time of some entity is negative   *)
(* (and the step and the duration are positive), no snapshot row of that   *)
(* entity is emitted and reshape_for_animations returns no table.          *)
(***************************************************************************)
C18_NegativeTime ==
    \A e \in Entities :
        (ValidSampling /\ HasArrival(e) /\ ArrivalTime(e) < 0) =>
            /\ RowsOf(Emitted, e) = {}
            /\ ~Reshaped

(***************************************************************************)
(* Notions of the claims about the stage descriptors.                      *)
(***************************************************************************)
HasDescriptor(ev) ==
    \E k \in 1..Len(event_position_df) : event_position_df[k].event = ev

SameCell(a, b) == a.patient = b.patient /\ a.minute = b.minute /\ a.event = b.event

PatientsBefore(e) ==
    Cardinality({full_patient_df[i].patient : i \in 1..Len(full_patient_df)}
                    \cap {p \in 0..(e - 1) : TRUE})

C20_IconStability ==
    pc = "done" =>
        /\ \A i \in 1..Len(full_patient_df_plus_pos) :
              /\ full_patient_df_plus_pos[i].icon \in 1..IconListLen
              /\ full_patient_df_plus_pos[i].icon =
                    (PatientsBefore(full_patient_df_plus_pos[i].patient) % IconListLen) + 1
        /\ \A i, j \in 1..Len(full_patient_df_plus_pos) :
              full_patient_df_plus_pos[i].patient = full_patient_df_plus_pos[j].patient
                  => full_patient_df_plus_pos[i].icon = full_patient_df_plus_pos[j].icon

\* more patients than icons: two patients share an icon, and a patient has
\* rows in two frames
C20_Witness ==
    /\ pc = "done"
    /\ \E i \in 1..Len(full_patient_df_plus_pos) :
          /\ full_patient_df_plus_pos[i].patient > IconListLen
          /\ \E j \in 1..Len(full_patient_df_plus_pos) :
                /\ full_patient_df_plus_pos[j].patient # full_patient_df_plus_pos[i].patient
                /\ full_patient_df_plus_pos[j].icon = full_patient_df_plus_pos[i].icon
          /\ \E k \in 1..Len(full_patient_df_plus_pos) :
                /\ full_patient_df_plus_pos[k].patient = full_patient_df_plus_pos[i].patient
                /\ full_patient_df_plus_pos[k].minute # full_patient_df_plus_pos[i].minute

(***************************************************************************)
(* C21.  Icon assignment order, as stated: the entity with k entities      *)
(* appearing before it in the event log carries the icon at position       *)
(* k mod len(icon_list).                                                   *)
(***************************************************************************)
FirstIndex(e) ==
    CHOOSE i \in 1..Len(event_log) :
        /\ event_log[i].patient = e
        /\ \A j \in 1..(i - 1) : event_log[j].patient # e

AppearBefore(e) == Cardinality({f \in Entities : FirstIndex(f) < FirstIndex(e)})

C21_FirstAppearance ==
    pc = "done" =>
        \A i \in 1..Len(full_patient_df_plus_pos) :
            full_patient_df_plus_pos[i].icon =
                (AppearBefore(full_patient_df_plus_pos[i].patient) % IconListLen) + 1

(***************************************************************************)
(* C21, amended.  The entities receive the icons in the increasing order   *)
(* of their identifiers, whatever the order of the log: the smallest       *)
(* identifier of the reshaped table gets the first icon, and of two        *)
(* entities among the first len(icon_list) the one with the smaller        *)
(* identifier carries the icon that is earlier in icon_list.               *)
(***************************************************************************)
C21_IdentifierOrder ==
    pc = "done" =>
        \A i \in 1..Len(full_patient_df_plus_pos) :
            LET r == full_patient_df_plus_pos[i]
            IN /\ PatientsBefore(r.patient) = 0 => r.icon = 1
               /\ \A j \in 1..Len(full_patient_df_plus_pos) :
                     (/\ full_patient_df_plus_pos[j].patient < r.patient
                      /\ PatientsBefore(r.patient) < IconListLen)
                         => full_patient_df_plus_pos[j].icon < r.icon

\* two entities with rows in the returned table of which the one with the
\* greater identifier is the first in the log
C21_Witness ==
    /\ pc = "done"
    /\ \E i, j \in 1..Len(full_patient_df_plus_pos) :
          /\ full_patient_df_plus_pos[i].patient < full_patient_df_plus_pos[j].patient
          /\ FirstIndex(full_patient_df_plus_pos[j].patient)
                 < FirstIndex(full_patient_df_plus_pos[i].patient)
          /\ full_patient_df_plus_pos[i].icon < full_patient_df_plus_pos[j].icon

(***************************************************************************)
(* Notions of the claims about the order of the rows.                      *)
(***************************************************************************)
\* the frame is in non-decreasing order of the key
OrderedBy(df, Key(_)) ==
    \A i \in 1..(Len(df) - 1) : ~LexLess(Key(df[i + 1]), Key(df[i]))

ByMinuteAndEvent(r) == <<r.minute, EventOrd(r.event)>>

ByEventMinuteTime(r) == <<EventOrd(r.event), r.minute, r.time>>

(***************************************************************************)
(* C22.  Output ordering, as stated: the table reshape_for_animations      *)
(* returns and the positioned table animate_activity_log returns are both  *)
(* in ascending order of (minute, event).                                  *)
(***************************************************************************)
C22_OutputOrdering ==
    /\ Reshaped => OrderedBy(full_patient_df, ByMinuteAndEvent)
    /\ Positioned => OrderedBy(full_patient_df_plus_pos, ByMinuteAndEvent)

(***************************************************************************)
(* C22, amended.  The table reshape_for_animations returns is in ascending *)
(* order of (minute, event); the positioned table animate_activity_log     *)
(* returns holds the queue rows, then the resource_use rows, each of the   *)
(* two parts in ascending order of (event, minute, time).                  *)
(***************************************************************************)
C22_OutputOrderingAmended ==
    /\ Reshaped => OrderedBy(full_patient_df, ByMinuteAndEvent)
    /\ Positioned =>
          \A i \in 1..(Len(full_patient_df_plus_pos) - 1) :
              LET a == full_patient_df_plus_pos[i]
                  b == full_patient_df_plus_pos[i + 1]
              IN IF a.event_type = b.event_type
                 THEN ~LexLess(ByEventMinuteTime(b), ByEventMinuteTime(a))
                 ELSE a.event_type = "queue" /\ b.event_type = "resource_use"

\* the returned table holds queue rows and resource_use rows and a row of
\* a later minute stands before a row of an earlier minute
C22_Witness ==
    /\ pc = "done"
    /\ \E i, j \in 1..Len(full_patient_df_plus_pos) :
          /\ i < j
          /\ full_patient_df_plus_pos[i].minute > full_patient_df_plus_pos[j].minute
          /\ full_patient_df_plus_pos[i].event_type = "queue"
          /\ full_patient_df_plus_pos[j].event_type = "resource_use"

(***************************************************************************)
(* C23.  Point stages, as stated: a row of the merged table that is        *)
(* neither a queue row nor a resource_use row and whose event has a stage  *)
(* descriptor is in the positioned table, with x_final and y_final the x   *)
(* and y of the descriptor.                                                *)
(***************************************************************************)
PointRows ==
    {j \in 1..Len(merged_df) : merged_df[j].event_type \notin {"queue", "resource_use"}}

C23_PointStages ==
    Positioned =>
        \A j \in PointRows :
            HasDescriptor(merged_df[j].event) =>
                \E k \in 1..Len(full_patient_df_plus_pos) :
                    /\ SameCell(full_patient_df_plus_pos[k], merged_df[j])
                    /\ full_patient_df_plus_pos[k].x_final = Some(Anchor(merged_df[j].event).x)
                    /\ full_patient_df_plus_pos[k].y_final = Some(Anchor(merged_df[j].event).y)

(***************************************************************************)
(* C23, amended.  A row of the merged table that is neither a queue row    *)
(* nor a resource_use row is not in the positioned table, whether its      *)
(* event has a stage descriptor or not: every row of the positioned table  *)
(* has the event_type queue or resource_use.                               *)
(***************************************************************************)
C23_PointStagesDropped ==
    Positioned =>
        /\ \A k \in 1..Len(full_patient_df_plus_pos) :
              full_patient_df_plus_pos[k].event_type \in {"queue", "resource_use"}
        /\ \A j \in PointRows :
              \A k \in 1..Len(full_patient_df_plus_pos) :
                  ~SameCell(full_patient_df_plus_pos[k], merged_df[j])

\* an entity is shown at "arrival", a stage with a descriptor, in a frame
\* in which another entity is positioned
C23_Witness ==
    /\ Positioned
    /\ \E j \in PointRows :
          /\ merged_df[j].event = "arrival"
          /\ merged_df[j].x = Some(Anchor("arrival").x)
          /\ \E k \in 1..Len(full_patient_df_plus_pos) :
                full_patient_df_plus_pos[k].minute = merged_df[j].minute

C25_ReadOnlyInputs ==
    [][event_log' = event_log /\ event_position_df' = event_position_df]_vars

\* a call has ended in the error of pd.concat, another one has returned
\* the positioned table
C25_Witness ==
    /\ pc \in {"error", "done"}
    /\ event_log # <<>>
    /\ event_position_df = ex_1_event_position_df
    /\ pc = "done" => full_patient_df_plus_pos # <<>>

(***************************************************************************)
(* Notions of the claims about what an entity adds to the tables: the      *)
(* tables the engine makes of another log.                                 *)
(***************************************************************************)
ReshapeOf(log, step, duration) ==
    LET frames == [k \in 1..duration |->
                      IF Mod(k - 1, step) = 0 /\ ~PivotKeyError(log)
                      THEN MostRecentEventsMinute(log,
                                                  CurrentPatientsInMoment(log, k - 1),
                                                  k - 1)
                      ELSE <<>>]
        regular == Concat(frames)
    IN SortOutput(regular \o FinalStep(regular, step))

PositionedOf(log, step, duration, wrap, positions) ==
    LET merged == MergePositions(WithRank(ReshapeOf(log, step, duration)), positions)
    IN Queues(merged, wrap) \o ResourceUse(merged)

LogWithout(e) ==
    SelectIdx(event_log, {i \in 1..Len(event_log) : event_log[i].patient # e})

\* the entries of e are an arrival and a depart and nothing else
OnlyArrivalAndDepart(e) ==
    /\ HasArrival(e)
    /\ HasDepart(e)
    /\ \A i \in 1..Len(event_log) :
          event_log[i].patient = e => event_log[i].event \in {"arrival", "depart"}

\* where each row of a positioned table is drawn
Coords(df) ==
    [i \in 1..Len(df) |->
        <<df[i].patient, df[i].event, df[i].minute, df[i].x_final, df[i].y_final>>]

(***************************************************************************)
(* C26.  Arrival-and-departure-only entity: when the only entries of an    *)
(* entity are its arrival and its depart, the call does not end in an      *)
(* error, the entity has a snapshot row at every sampled instant between   *)
(* the two, it has no row in the positioned table, and the rows of the     *)
(* other entities are drawn where the engine draws them for the log        *)
(* without the entity (when that log still holds an arrival and a depart). *)
(***************************************************************************)
C26_ArrivalDepartOnly ==
    \A e \in Entities :
        OnlyArrivalAndDepart(e) =>
            /\ pc # "error"
            /\ \A T \in Visited :
                  (ArrivalTime(e) <= T /\ T <= DepartTime(e)) => HasRow(Emitted, e, T)
            /\ Positioned => RowsOf(full_patient_df_plus_pos, e) = {}
            /\ (pc = "positioned" /\ ~PivotKeyError(LogWithout(e))) =>
                  Coords(full_patient_df_plus_pos) =
                      Coords(PositionedOf(LogWithout(e), every_x_time_units,
                                          limit_duration, wrap_queues_at,
                                          event_position_df))

(***************************************************************************)
(* C27.  Exit is shown: every entity with a positioned row of a stage      *)
(* (a row other than "exit") in some frame also has its "exit" row in the  *)
(* positioned table, at its last regular minute plus the step.             *)
(***************************************************************************)
C27_ExitShown ==
    Positioned =>
        \A e \in Entities :
            (\E i \in RowsOf(full_patient_df_plus_pos, e) :
                full_patient_df_plus_pos[i].event # "exit")
            => \E j \in RowsOf(full_patient_df_plus_pos, e) :
                  /\ full_patient_df_plus_pos[j].event = "exit"
                  /\ full_patient_df_plus_pos[j].minute =
                        LastMinute(regular_df, e) + every_x_time_units

\* rows i and j of the positioned table show one entity at one queue entry
\* at two consecutive sampled instants
StillWaiting(i, j) ==
    LET a == full_patient_df_plus_pos[i]
        b == full_patient_df_plus_pos[j]
    IN /\ a.patient = b.patient
       /\ a.event \in QueueStages
       /\ a.event = b.event
       /\ a.time = b.time
       /\ LogIndex(a) = LogIndex(b)
       /\ b.minute = a.minute + every_x_time_units

(***************************************************************************)
(* C28.  Queues only move forward: when an entity is shown at the same     *)
(* queue entry at two consecutive sampled instants, its rank at the later  *)
(* instant is at most its rank at the earlier one.                         *)
(***************************************************************************)
C28_QueuesMoveForward ==
    Positioned =>
        \A i, j \in 1..Len(full_patient_df_plus_pos) :
            StillWaiting(i, j) =>
                full_patient_df_plus_pos[j].rank <= full_patient_df_plus_pos[i].rank

\* an entity moves up the queue when the one ahead of it is treated
C28_Witness ==
    /\ Positioned
    /\ \E i, j \in 1..Len(full_patient_df_plus_pos) :
          /\ StillWaiting(i, j)
          /\ full_patient_df_plus_pos[j].rank < full_patient_df_plus_pos[i].rank

(***************************************************************************)
(* C29.  No shared resource slot: for the log of a run of                  *)
(* TreatmentCentreModelSimpleNurseStepOnly, no two rows of one frame that  *)
(* are positioned at treatment_begins have the same resource_id or the     *)
(* same coordinates.                                                       *)
(***************************************************************************)
C29_NoSharedSlot ==
    Positioned =>
        \A i, j \in 1..Len(full_patient_df_plus_pos) :
            LET a == full_patient_df_plus_pos[i]
                b == full_patient_df_plus_pos[j]
            IN (/\ i # j
                /\ a.event = "treatment_begins"
                /\ b.event = "treatment_begins"
                /\ a.minute = b.minute)
               => /\ a.patient # b.patient
                  /\ a.resource_id # b.resource_id
                  /\ <<a.x_final, a.y_final>> # <<b.x_final, b.y_final>>

\* a frame of the instant at which one patient leaves a cubicle (it logs
\* treatment_complete and depart) and another patient seizes that cubicle
C29_Witness ==
    /\ Positioned
    /\ \E i \in 1..Len(full_patient_df_plus_pos) :
          LET b == full_patient_df_plus_pos[i]
          IN /\ b.event = "treatment_begins"
             /\ b.time = b.minute
             /\ \E k, l \in 1..Len(event_log) :
                   /\ event_log[k].event = "treatment_complete"
                   /\ event_log[k].time = b.minute
                   /\ event_log[k].resource_id = b.resource_id
                   /\ event_log[k].patient # b.patient
                   /\ event_log[l].event = "depart"
                   /\ event_log[l].time = b.minute
                   /\ event_log[l].patient = event_log[k].patient

(***************************************************************************)
(* Notions of the claims about the beds of the hospital.                   *)
(***************************************************************************)
Logged(p, ev) ==
    \E i \in 1..Len(event_log) :
        /\ event_log[i].patient = p[2]
        /\ event_log[i].pathway = p[1]
        /\ event_log[i].event = ev

\* the patients that stay in a bed according to the log
InBed ==
    {p \in DOMAIN requests :
        Logged(p, "post_surgery_stay_begins") /\ ~Logged(p, "post_surgery_stay_ends")}

\* every event of the current simulation time has been processed
InstantOver ==
    \/ pc = "audit"
    \/ pc = "hospital" /\ NextEvent(env_queue).time > now

(***************************************************************************)
(* C30.  Bed conservation: at every simulation instant the beds in the     *)
(* store and the patients that have logged post_surgery_stay_begins and    *)
(* not yet put their bed back are n_beds together, and a patient that has  *)
(* logged no_bed_available has taken no bed out of the store.              *)
(***************************************************************************)
C30_BedConservation ==
    InstantOver =>
        /\ Len(beds.items) + Cardinality(InBed) = n_beds
        /\ \A p \in DOMAIN requests :
              Logged(p, "no_bed_available") => requests[p].item = 0

(***************************************************************************)
(* Notions of the claims about the log a simulation run writes.           *)
(***************************************************************************)
\* the identifiers of the log: the values of its patient field
Identifiers == {event_log[i].patient : i \in 1..Len(event_log)}

EntriesNamed(id, ev) ==
    {i \in 1..Len(event_log) : event_log[i].patient = id /\ event_log[i].event = ev}

\* the entries of one identifier meet the invariant of the engine's input
MeetsInputInvariant(id) ==
    /\ Cardinality(EntriesNamed(id, "arrival")) <= 1
    /\ Cardinality(EntriesNamed(id, "depart")) <= 1
    /\ \A i \in 1..Len(event_log) :
          event_log[i].patient = id =>
              /\ \A a \in EntriesNamed(id, "arrival") :
                    event_log[a].time <= event_log[i].time
              /\ \A d \in EntriesNamed(id, "depart") :
                    event_log[i].time <= event_log[d].time

(***************************************************************************)
(* C31.  The logs of the example models meet the input invariant of the    *)
(* engine: in the log of a run every patient identifier has at most one    *)
(* arrival entry and at most one depart entry, and its other entries have  *)
(* a time between the two.                                                 *)
(***************************************************************************)
C31_LogsMeetInvariant == \A id \in Identifiers : MeetsInputInvariant(id)

(***************************************************************************)
(* Notions of the claims about the cubicles of ex_1.                       *)
(***************************************************************************)
\* every event of the current simulation time of the run of ex_1 has been
\* processed (or the run has ended)
SimInstantOver ==
    \/ pc = "simulate" /\ NextEvent(env_queue).time > now
    \/ pc \in {"sweep", "reshaped", "merged", "positioned", "done", "error"}

\* the patients between their treatment_begins and their put-back
InCubicle ==
    {id \in Identifiers :
        /\ EntriesNamed(id, "treatment_begins") # {}
        /\ EntriesNamed(id, "treatment_complete") = {}}

CubicleOf(id) ==
    event_log[CHOOSE i \in EntriesNamed(id, "treatment_begins") : TRUE].resource_id[1]

(***************************************************************************)
(* C32.  Cubicle exclusivity: at every simulation instant of a run of      *)
(* TreatmentCentreModelSimpleNurseStepOnly the cubicles in the store and   *)
(* the patients between treatment_begins and put-back are n_cubicles_1     *)
(* together, every cubicle 1..n_cubicles_1 is in the store or held by one  *)
(* patient, never both and never twice, and a patient logs on              *)
(* treatment_complete the resource_id it logged on treatment_begins.       *)
(***************************************************************************)
C32_CubicleExclusivity ==
    /\ SimInstantOver =>
          /\ Len(treatment.items) + Cardinality(InCubicle) = args_n_cubicles_1
          /\ \A id1, id2 \in InCubicle : id1 # id2 => CubicleOf(id1) # CubicleOf(id2)
          /\ \A i, j \in 1..Len(treatment.items) :
                i # j => treatment.items[i] # treatment.items[j]
          /\ \A i \in 1..Len(treatment.items) :
                /\ treatment.items[i] \in 1..args_n_cubicles_1
                /\ \A id \in InCubicle : CubicleOf(id) # treatment.items[i]
          /\ \A id \in InCubicle : CubicleOf(id) \in 1..args_n_cubicles_1
    /\ \A id \in Identifiers :
          \A i \in EntriesNamed(id, "treatment_complete") :
              /\ Cardinality(EntriesNamed(id, "treatment_begins")) = 1
              /\ event_log[i].resource_id = Some(CubicleOf(id))

\* every cubicle is held, one of them for the second time, and a patient waits
C32_Witness ==
    /\ pc = "simulate"
    /\ SimInstantOver
    /\ treatment.items = <<>>
    /\ treatment.get_queue # <<>>
    /\ Cardinality(InCubicle) = args_n_cubicles_1
    /\ \E id \in Identifiers : EntriesNamed(id, "treatment_complete") # {}

(***************************************************************************)
(* C39.  Replication seeds: in every call of multiple_replications the     *)
(* run of replication rep is made with random number set b + rep, b being  *)
(* the random number set of the scenario when the call was made, and a     *)
(* second call on the same scenario makes its runs with the seeds of the   *)
(* first.                                                                  *)
(***************************************************************************)
C39_ReplicationSeeds ==
    /\ \A c \in 1..Len(calls) :
          \A k \in 1..Len(calls[c].seeds) : calls[c].seeds[k] = calls[c].b + (k - 1)
    /\ (Len(calls) = 2 /\ pc = "caller") => calls[2].seeds = calls[1].seeds

(***************************************************************************)
(* The follow-up booking model of ex_5.                                    *)
(***************************************************************************)
\* the identifier of the patient with index p
PatientId(p) == <<referrals[p].referral_t, referrals[p].i>>

\* the entries of the event log of patient p with the event event
LogEntriesOf(p, event) ==
    {k \in 1..Len(event_log) :
        event_log[k].patient = PatientId(p) /\ event_log[k].event = event}

(***************************************************************************)
(* C33.  Assessment happens on the booked day: for every patient, the      *)
(* have_appointment entry of its assessment is logged at the time          *)
(* assessment_t that find_slot returned and book_slot booked, also when    *)
(* the patient was booked on a later day than the day of its referral.     *)
(***************************************************************************)
C33_AssessmentOnBookedDay ==
    \A p \in 1..Len(referrals) :
        \A k \in LogEntriesOf(p, "have_appointment") :
            event_log[k].type = Some("assessment")
                => event_log[k].time = referrals[p].assessment_t[1]

C35_HighPriorityBookedOnArrival ==
    \A p \in 1..Len(referrals) :
        (referrals[p].priority = 2 /\ now > referrals[p].referral_t)
            => \E k \in LogEntriesOf(p, "appointment_booked_waiting") :
                   event_log[k].time = referrals[p].referral_t

(***************************************************************************)
(* C36.  Slots never go negative: after any sequence of bookings every     *)
(* cell of available_slots and of carve_out_slots is at least 0, and the   *)
(* carve-out slots, the available slots and the bookings of a cell add up  *)
(* to the capacity of the cell.                                            *)
(***************************************************************************)
C36_SlotsNeverNegative ==
    \A day \in DOMAIN available_slots :
        \A clinic \in Clinics :
            /\ available_slots[day][clinic] >= 0
            /\ carve_out_slots[day][clinic] >= 0
            /\ carve_out_slots[day][clinic] + available_slots[day][clinic]
                   + bookings[day][clinic] = weekly_slots[day % 5][clinic]

\* the patients a clinician has on its caseload: booked and not departed
OnCaseload(clinic) ==
    {p \in 1..Len(referrals) :
        /\ referrals[p].assessment_t # Null
        /\ referrals[p].booked_clinic = clinic
        /\ LogEntriesOf(p, "depart") = {}}

\* the half caseload slots a patient takes: 1 slot when it is of high
\* priority and its intensity is not sampled yet or when its intensity is
\* high, half a slot otherwise
CaseloadOf(p) ==
    IF referrals[p].follow_up_intensity = Null
    THEN (IF referrals[p].priority = 2 THEN 2 ELSE 1)
    ELSE (IF referrals[p].follow_up_intensity[1] = 1 THEN 2 ELSE 1)

(***************************************************************************)
(* C37.  Caseload conservation: the caseload of every clinician is the     *)
(* caseload of the caseload file plus 1 or 0.5 for every patient booked    *)
(* with the clinician and not departed, so the changes a departed patient  *)
(* made to the caseload add up to zero, whatever its priority, follow-up   *)
(* and intensity.                                                          *)
(***************************************************************************)
C37_CaseloadConservation ==
    \A clinic \in DOMAIN existing_caseload :
        existing_caseload[clinic] =
            existing_caseload_file[clinic]
                + SumOver([p \in OnCaseload(clinic) |-> CaseloadOf(p)], OnCaseload(clinic))

\* a low-priority patient with follow-ups of high intensity has departed
C37_Witness ==
    \E p \in 1..Len(referrals) :
        /\ referrals[p].priority = 1
        /\ referrals[p].follow_up_intensity = Some(1)
        /\ LogEntriesOf(p, "depart") # {}

\* patient x arrived before patient y
ArrivedBefore(x, y) == LexLess(PatientId(x), PatientId(y))

(***************************************************************************)
(* C38.  Waiting-store order: no two waiting patients have the same key,   *)
(* and the patient book_new_clients_if_capacity removes from the store is  *)
(* of high priority when any waiting patient is and has arrived before     *)
(* every other waiting patient of its priority.                            *)
(***************************************************************************)
C38_WaitingStoreOrder ==
    [][/\ \A x, y \in waiting_for_clinician_store :
              x.priority = y.priority => x = y
       /\ \A x \in waiting_for_clinician_store \ waiting_for_clinician_store' :
              \A y \in waiting_for_clinician_store' :
                  /\ referrals[y.item].priority = 2 => referrals[x.item].priority = 2
                  /\ referrals[y.item].priority = referrals[x.item].priority
                         => ArrivedBefore(x.item, y.item)]_vars

\* a patient of high priority is taken for its booking while a patient of
\* low priority that arrived before it waits
C38_Witness ==
    \E k \in 1..Len(env_queue) :
        /\ env_queue[k].kind = "execute_assessment_booking"
        /\ referrals[env_queue[k].proc].priority = 2
        /\ \E y \in waiting_for_clinician_store :
               /\ referrals[y.item].priority = 1
               /\ ArrivedBefore(y.item, env_queue[k].proc)
====
